---- MODULE Spec2Model ----
(***************************************************************************)
(* Model of the ElevenLabs TTS provider (src/README.md carries index.ts,   *)
(* src/src/types.ts the types).                                            *)
(*                                                                         *)
(* Representation of JavaScript values:                                    *)
(*   - an optional value is a set with at most one element: {} is          *)
(*     undefined, {v} is the value v;                                      *)
(*   - a real number is an integer count of 1/Scale units, so 0.25 is      *)
(*     Scale \div 4 and rate/150 is exact;                                 *)
(*   - a seed is a record [hi, lo, fr] standing for hi*2^16 + lo +         *)
(*     fr/Scale with 0 <= lo < 2^16 and 0 <= fr < Scale (the range         *)
(*     0..4294967295 does not fit one machine integer of the checker);     *)
(*   - a voice id, model id or language is a string, "" the empty string;  *)
(*   - an output-format string is a sequence of one-character strings;     *)
(*   - a text is the non-empty sequence of its lines (text.split("\n")),   *)
(*     each line a record of what the code looks at.                       *)
(***************************************************************************)
EXTENDS Integers, Sequences, FiniteSets, TLC

\* ---------------------------------------------------------------------------
\* Values
\* ---------------------------------------------------------------------------

undefined == {}

Some(v) == {v}

Val(o) == CHOOSE v \in o : TRUE

Abs(x) == IF x < 0 THEN -x ELSE x

Max(a, b) == IF a >= b THEN a ELSE b

Min(a, b) == IF a <= b THEN a ELSE b

\* average speaking rate, words per minute
baseWPM == 150

\* reals are held in units of 1/Scale
Scale == 2 * baseWPM

\* a || b on optional numbers: 0 and undefined are falsy
OrNum(a, b) == IF a # undefined /\ Val(a) # 0 THEN a ELSE b

\* a || b on optional strings: "" and undefined are falsy
OrStr(a, b) == IF a # undefined /\ Val(a) # "" THEN a ELSE b

\* a || b on optional character sequences: "" and undefined are falsy
OrChars(a, b) == IF a # undefined /\ Val(a) # <<>> THEN a ELSE b

\* a ?? b: only undefined falls through
Nullish(a, b) == IF a # undefined THEN a ELSE b

\* ---------------------------------------------------------------------------
\* Helper functions
\* ---------------------------------------------------------------------------

\* const valid = [0.0, 0.5, 1.0]
valid == <<0, Scale \div 2, Scale>>

RECURSIVE reduceClosest_tieUp(_, _, _)
reduceClosest_tieUp(prev, i, value) ==
    IF i > Len(valid) THEN prev
    ELSE reduceClosest_tieUp(
            IF Abs(valid[i] - value) <= Abs(prev - value) THEN valid[i] ELSE prev,
            i + 1, value)

\* valid.reduce((prev, curr) => |curr - value| < |prev - value| ? curr : prev)
\* from position i on, prev being the accumulator
RECURSIVE reduceClosest(_, _, _)
reduceClosest(prev, i, value) ==
    IF i > Len(valid) THEN prev
    ELSE reduceClosest(
            IF Abs(valid[i] - value) < Abs(prev - value) THEN valid[i] ELSE prev,
            i + 1, value)

validateStability_noSnap(value, modelId) ==
    IF value = undefined THEN undefined
    ELSE Some(Max(0, Min(Scale, Val(value))))

validateStability(value, modelId) ==
    IF value = undefined THEN undefined
    ELSE IF modelId = Some("eleven_v3")
         THEN Some(reduceClosest(valid[1], 2, Val(value)))
         ELSE Some(Max(0, Min(Scale, Val(value))))

validateUnit_noClamp(value) == value

validateUnit(value) ==
    IF value = undefined THEN undefined
    ELSE Some(Max(0, Min(Scale, Val(value))))

\* 2^16, the limb size of a seed
Limb == 2 ^ 16

SeedZero == [hi |-> 0, lo |-> 0, fr |-> 0]

\* 4294967295
SeedMax == [hi |-> Limb - 1, lo |-> Limb - 1, fr |-> 0]

SeedFloor(s) == [s EXCEPT !.fr = 0]

SeedLess(a, b) ==
    \/ a.hi < b.hi
    \/ a.hi = b.hi /\ a.lo < b.lo
    \/ a.hi = b.hi /\ a.lo = b.lo /\ a.fr < b.fr

SeedMin(a, b) == IF SeedLess(b, a) THEN b ELSE a

SeedMaxOf(a, b) == IF SeedLess(a, b) THEN b ELSE a

validateSeed(value) ==
    IF value = undefined THEN undefined
    ELSE Some(SeedMaxOf(SeedZero, SeedMin(SeedMax, SeedFloor(Val(value)))))

\* Math.floor of a real
Floor(x) == (x \div Scale) * Scale

validateLatencyTier_noFloor(value) ==
    IF value = undefined THEN undefined
    ELSE Some(Max(0, Min(4 * Scale, Val(value))))

validateLatencyTier(value) ==
    IF value = undefined THEN undefined
    ELSE Some(Max(0, Min(4 * Scale, Floor(Val(value)))))

resolveSpeed_rateFirst(speed, rateWPM) ==
    IF rateWPM # undefined
    THEN Some(Max(Scale \div 4, Min(4 * Scale, (Val(rateWPM) * Scale) \div baseWPM)))
    ELSE IF speed # undefined
         THEN Some(Max(Scale \div 4, Min(4 * Scale, Val(speed))))
         ELSE undefined

resolveSpeed(speed, rateWPM) ==
    IF speed # undefined
    THEN Some(Max(Scale \div 4, Min(4 * Scale, Val(speed))))
    ELSE IF rateWPM # undefined
         THEN Some(Max(Scale \div 4, Min(4 * Scale, (Val(rateWPM) * Scale) \div baseWPM)))
         ELSE undefined

\* ---------------------------------------------------------------------------
\* Output-format strings
\* ---------------------------------------------------------------------------

pcm_44100 == <<"p", "c", "m", "_", "4", "4", "1", "0", "0">>

pcm_24000 == <<"p", "c", "m", "_", "2", "4", "0", "0", "0">>

pcm_16000 == <<"p", "c", "m", "_", "1", "6", "0", "0", "0">>

mp3_44100_128 == <<"m", "p", "3", "_", "4", "4", "1", "0", "0", "_", "1", "2", "8">>

ulaw_8000 == <<"u", "l", "a", "w", "_", "8", "0", "0", "0">>

unknown == <<"u", "n", "k", "n", "o", "w", "n">>

Digits == <<"0", "1", "2", "3", "4", "5", "6", "7", "8", "9">>

IsDigit(c) == \E d \in 1..Len(Digits) : Digits[d] = c

DigitValue(c) == (CHOOSE d \in 1..Len(Digits) : Digits[d] = c) - 1

mapAudioFormat(format) ==
    IF format = undefined \/ format = Some("") THEN pcm_44100
    ELSE CASE Val(format) = "pcm_s16le" -> pcm_44100
           [] Val(format) = "mp3" -> mp3_44100_128
           [] Val(format) \in {"opus", "ogg_opus"} -> ulaw_8000
           [] OTHER -> pcm_44100

\* the match of /(\d+)/ in format: the leftmost digit and the digits after it
MatchStart(format) ==
    IF \E i \in 1..Len(format) : IsDigit(format[i])
    THEN CHOOSE i \in 1..Len(format) :
            /\ IsDigit(format[i])
            /\ \A j \in 1..(i - 1) : ~IsDigit(format[j])
    ELSE 0

MatchEnd(format) ==
    LET s == MatchStart(format)
    IN  CHOOSE e \in s..Len(format) :
            /\ \A j \in s..e : IsDigit(format[j])
            /\ (e = Len(format) \/ ~IsDigit(format[e + 1]))

\* parseInt(digits, 10)
RECURSIVE parseInt(_)
parseInt(digits) ==
    IF digits = <<>> THEN 0
    ELSE 10 * parseInt(SubSeq(digits, 1, Len(digits) - 1))
         + DigitValue(digits[Len(digits)])

parseSampleRate(format) ==
    IF MatchStart(format) = 0 THEN 44100
    ELSE parseInt(SubSeq(format, MatchStart(format), MatchEnd(format)))

\* ---------------------------------------------------------------------------
\* Directives and texts
\* ---------------------------------------------------------------------------

\* a parsed first-line object: the VoiceDirective fields it holds (undefined
\* when the key is missing) and, in extra, its other top-level keys in order
NoKeys ==
    [voice |-> undefined, voice_id |-> undefined, voiceId |-> undefined,
     model |-> undefined, model_id |-> undefined, modelId |-> undefined,
     speed |-> undefined, rate |-> undefined, stability |-> undefined,
     similarity |-> undefined, style |-> undefined, speakerBoost |-> undefined,
     seed |-> undefined, normalize |-> undefined, lang |-> undefined,
     language |-> undefined, output_format |-> undefined,
     outputFormat |-> undefined, latency_tier |-> undefined, once |-> undefined,
     extra |-> <<>>]

knownKeys ==
    {"voice", "voice_id", "voiceId", "model", "model_id", "modelId", "speed",
     "rate", "stability", "similarity", "style", "speakerBoost", "seed",
     "normalize", "lang", "language", "output_format", "outputFormat",
     "latency_tier", "once"}

KeyOrder ==
    <<"voice", "voice_id", "voiceId", "model", "model_id", "modelId", "speed",
      "rate", "stability", "similarity", "style", "speakerBoost", "seed",
      "normalize", "lang", "language", "output_format", "outputFormat",
      "latency_tier", "once">>

\* Object.keys(parsed)
ObjectKeys(obj) ==
    SelectSeq(KeyOrder, LAMBDA k : obj[k] # undefined) \o obj.extra

\* A line of text: first and last are the first and last character of the
\* trimmed line ("" when it has none), json is what JSON.parse makes of the
\* trimmed line ("object", "other" for an array or scalar, "throws"), obj the
\* parsed object, and lead / words / trail say whether the line starts with
\* whitespace, how many whitespace-separated words it has, and whether it
\* ends with whitespace.
EmptyLine ==
    [first |-> "", last |-> "", json |-> "throws", obj |-> NoKeys,
     lead |-> FALSE, words |-> 0, trail |-> FALSE]

Plain(n, lead, trail) ==
    [first |-> "a", last |-> "a", json |-> "throws", obj |-> NoKeys,
     lead |-> lead, words |-> n, trail |-> trail]

ObjLine(obj, lead, trail) ==
    [first |-> "{", last |-> "}", json |-> "object", obj |-> obj,
     lead |-> lead, words |-> 1, trail |-> trail]

\* {not json}
BadBraceLine ==
    [first |-> "{", last |-> "}", json |-> "throws", obj |-> NoKeys,
     lead |-> FALSE, words |-> 2, trail |-> FALSE]

\* ["a"]
ArrayLine ==
    [first |-> "[", last |-> "]", json |-> "other", obj |-> NoKeys,
     lead |-> FALSE, words |-> 1, trail |-> FALSE]

\* {"a":1} x
OpenBraceLine ==
    [first |-> "{", last |-> "a", json |-> "throws", obj |-> NoKeys,
     lead |-> FALSE, words |-> 2, trail |-> FALSE]

\* the string ""
EmptyText == <<EmptyLine>>

\* lines.join("\n")
Join(lines) == IF lines = <<>> THEN EmptyText ELSE lines

\* one "w" per word and one "s" per whitespace character class of a line
RECURSIVE WordClasses(_)
WordClasses(n) ==
    IF n = 0 THEN <<>>
    ELSE IF n = 1 THEN <<"w">>
    ELSE <<"w", "s">> \o WordClasses(n - 1)

LineClasses(l) ==
    (IF l.lead THEN <<"s">> ELSE <<>>) \o WordClasses(l.words)
        \o (IF l.trail THEN <<"s">> ELSE <<>>)

RECURSIVE TextClasses(_)
TextClasses(text) ==
    IF Len(text) = 1 THEN LineClasses(text[1])
    ELSE LineClasses(text[1]) \o <<"s">> \o TextClasses(Tail(text))

\* text.split(/\s+/).length: one more than the number of whitespace runs
SplitLength(text) ==
    LET c == TextClasses(text)
    IN  1 + Cardinality({i \in 1..Len(c) : c[i] = "s" /\ (i = 1 \/ c[i - 1] # "s")})

\* parseVoiceDirective giving no directive when the object has unknown keys
parseVoiceDirective_rejectUnknown(text) ==
    LET lines == text
        firstLine == lines[1]
    IN  IF ~(firstLine.first = "{") \/ ~(firstLine.last = "}")
        THEN [directive |-> undefined, stripped |-> text, unknownKeys |-> <<>>]
        ELSE IF firstLine.json = "object" /\ firstLine.obj.extra = <<>>
             THEN [directive |-> Some(firstLine.obj),
                   stripped |-> Join(Tail(lines)),
                   unknownKeys |-> <<>>]
             ELSE [directive |-> undefined, stripped |-> text, unknownKeys |-> <<>>]

\* parseVoiceDirective dropping the first line also when JSON.parse throws
parseVoiceDirective_stripOnThrow(text) ==
    LET lines == text
        firstLine == lines[1]
    IN  IF ~(firstLine.first = "{") \/ ~(firstLine.last = "}")
        THEN [directive |-> undefined, stripped |-> text, unknownKeys |-> <<>>]
        ELSE IF firstLine.json = "object"
             THEN [directive |-> Some(firstLine.obj),
                   stripped |-> Join(Tail(lines)),
                   unknownKeys |-> SelectSeq(ObjectKeys(firstLine.obj),
                                             LAMBDA k : k \notin knownKeys)]
             ELSE [directive |-> undefined, stripped |-> Join(Tail(lines)),
                   unknownKeys |-> <<>>]

\* directive undefined stands for null
parseVoiceDirective(text) ==
    LET lines == text
        firstLine == lines[1]
    IN  IF ~(firstLine.first = "{") \/ ~(firstLine.last = "}")
        THEN [directive |-> undefined, stripped |-> text, unknownKeys |-> <<>>]
        ELSE IF firstLine.json = "object"
             THEN [directive |-> Some(firstLine.obj),
                   stripped |-> Join(Tail(lines)),
                   unknownKeys |-> SelectSeq(ObjectKeys(firstLine.obj),
                                             LAMBDA k : k \notin knownKeys)]
             ELSE [directive |-> undefined, stripped |-> text, unknownKeys |-> <<>>]

\* o?.f
Field(o, f) == IF o = undefined THEN undefined ELSE Val(o)[f]

mergeOptions_baseFirst(base, extended) ==
    [voice |-> OrStr(Field(base, "voice"), Field(extended, "voice")),
     speed |-> OrNum(Field(extended, "speed"), Field(base, "speed")),
     rate |-> Field(extended, "rate"),
     stability |-> Field(extended, "stability"),
     similarity |-> OrNum(Field(extended, "similarity"),
                          Field(extended, "similarityBoost")),
     style |-> Field(extended, "style"),
     speakerBoost |-> Field(extended, "speakerBoost"),
     seed |-> Field(extended, "seed"),
     modelId |-> Field(extended, "modelId"),
     outputFormat |-> Field(extended, "outputFormat"),
     language |-> Field(extended, "language"),
     latencyTier |-> Field(extended, "latencyTier")]

mergeOptions(base, extended) ==
    [voice |-> OrStr(Field(extended, "voice"), Field(base, "voice")),
     speed |-> OrNum(Field(extended, "speed"), Field(base, "speed")),
     rate |-> Field(extended, "rate"),
     stability |-> Field(extended, "stability"),
     similarity |-> OrNum(Field(extended, "similarity"),
                          Field(extended, "similarityBoost")),
     style |-> Field(extended, "style"),
     speakerBoost |-> Field(extended, "speakerBoost"),
     seed |-> Field(extended, "seed"),
     modelId |-> Field(extended, "modelId"),
     outputFormat |-> Field(extended, "outputFormat"),
     language |-> Field(extended, "language"),
     latencyTier |-> Field(extended, "latencyTier")]

\* the object literal both synthesize and streamSynthesize hand to
\* mergeOptions as extended
DirectiveOptions(directive) ==
    Some([voice |-> OrStr(OrStr(Field(directive, "voiceId"),
                                Field(directive, "voice_id")),
                          Field(directive, "voice")),
          speed |-> Field(directive, "speed"),
          rate |-> Field(directive, "rate"),
          stability |-> Field(directive, "stability"),
          similarity |-> Field(directive, "similarity"),
          similarityBoost |-> undefined,
          style |-> Field(directive, "style"),
          speakerBoost |-> Field(directive, "speakerBoost"),
          seed |-> Field(directive, "seed"),
          modelId |-> OrStr(OrStr(Field(directive, "modelId"),
                                  Field(directive, "model_id")),
                            Field(directive, "model")),
          outputFormat |-> OrChars(Field(directive, "outputFormat"),
                                   Field(directive, "output_format")),
          language |-> OrStr(Field(directive, "lang"),
                             Field(directive, "language")),
          latencyTier |-> Field(directive, "latency_tier")])

\* a rational number n/d with d > 0, in lowest terms
RECURSIVE Gcd(_, _)
Gcd(a, b) == IF b = 0 THEN a ELSE Gcd(b, a % b)

Rat(n, d) ==
    LET g == Gcd(Abs(n), Abs(d))
        sg == IF d < 0 THEN -1 ELSE 1
    IN  [num |-> (sg * n) \div g, den |-> (sg * d) \div g]

\* ---------------------------------------------------------------------------
\* ElevenLabsTTSProvider
\* ---------------------------------------------------------------------------

\* the constructor reading the environment before the configuration
constructor_envFirst(config, env) ==
    LET apiKey == OrStr(OrStr(env.ELEVENLABS_API_KEY, config.apiKey), Some(""))
    IN  IF Val(apiKey) = "" THEN undefined
        ELSE Some([apiKey |-> Val(apiKey),
                   defaultVoiceId |-> config.defaultVoiceId,
                   defaultModelId |-> OrStr(config.defaultModelId, Some("eleven_turbo_v2_5")),
                   stability |-> Nullish(config.stability, Some(Scale \div 2)),
                   similarityBoost |-> Nullish(config.similarityBoost, Some((3 * Scale) \div 4)),
                   style |-> config.style,
                   speakerBoost |-> Nullish(config.speakerBoost, Some(TRUE))])

\* new ElevenLabsTTSProvider(config) under the environment env: the stored
\* this.config, or undefined when the constructor throws
constructor(config, env) ==
    LET apiKey == OrStr(OrStr(config.apiKey, env.ELEVENLABS_API_KEY), Some(""))
    IN  IF Val(apiKey) = "" THEN undefined
        ELSE Some([apiKey |-> Val(apiKey),
                   defaultVoiceId |-> config.defaultVoiceId,
                   defaultModelId |-> OrStr(config.defaultModelId, Some("eleven_turbo_v2_5")),
                   stability |-> Nullish(config.stability, Some(Scale \div 2)),
                   similarityBoost |-> Nullish(config.similarityBoost, Some((3 * Scale) \div 4)),
                   style |-> config.style,
                   speakerBoost |-> Nullish(config.speakerBoost, Some(TRUE))])

\* synthesize up to its fetch: the locals it has computed and the request it
\* is about to send; error is "" unless it throws before the fetch
synthesize(cfg, text, options) ==
    LET parsed == parseVoiceDirective(text)
        directive == parsed.directive
        stripped == parsed.stripped
        cleanText == IF stripped # EmptyText THEN stripped ELSE text
        opts == mergeOptions(options, DirectiveOptions(directive))
        voiceId == OrStr(opts.voice, cfg.defaultVoiceId)
        modelId == OrStr(OrStr(opts.modelId, cfg.defaultModelId), Some("eleven_turbo_v2_5"))
        outputFormat == OrChars(opts.outputFormat, Some(mapAudioFormat(Field(options, "format"))))
        sampleRate == OrNum(Field(options, "sampleRate"), Some(parseSampleRate(Val(outputFormat))))
        requestBody ==
            [text |-> cleanText,
             model_id |-> Val(modelId),
             voice_settings |->
                [stability |-> validateStability(Nullish(opts.stability, cfg.stability), modelId),
                 similarity_boost |-> validateUnit(Nullish(opts.similarity, cfg.similarityBoost)),
                 style |-> validateUnit(Nullish(opts.style, cfg.style)),
                 use_speaker_boost |-> Nullish(opts.speakerBoost, cfg.speakerBoost)],
             seed |-> validateSeed(opts.seed),
             language_code |-> opts.language]
        words == SplitLength(cleanText)
        speedMultiplier == Val(OrNum(opts.speed, Some(Scale)))
    IN  [error |-> IF voiceId = undefined \/ voiceId = Some("")
                   THEN "Voice ID is required" ELSE "",
         directive |-> directive,
         stripped |-> stripped,
         unknownKeys |-> parsed.unknownKeys,
         opts |-> opts,
         voiceId |-> voiceId,
         path |-> "/text-to-speech/{voiceId}",
         output_format |-> Val(outputFormat),
         optimize_streaming_latency |->
            IF opts.latencyTier # undefined
            THEN validateLatencyTier(opts.latencyTier) ELSE undefined,
         body |-> requestBody,
         sampleRate |-> Val(sampleRate),
         format |-> Val(OrStr(Field(options, "format"), Some("pcm_s16le"))),
         \* ((words / 2.5) * 1000) / speedMultiplier
         durationMs |-> Rat(words * 400 * Scale, speedMultiplier)]

\* streamSynthesize up to its fetch
streamSynthesize(cfg, text, options) ==
    LET parsed == parseVoiceDirective(text)
        directive == parsed.directive
        stripped == parsed.stripped
        cleanText == IF stripped # EmptyText THEN stripped ELSE text
        opts == mergeOptions(options, DirectiveOptions(directive))
        voiceId == OrStr(opts.voice, cfg.defaultVoiceId)
        modelId == OrStr(OrStr(opts.modelId, cfg.defaultModelId), Some("eleven_turbo_v2_5"))
        outputFormat == OrChars(opts.outputFormat, Some(mapAudioFormat(Field(options, "format"))))
        speed == resolveSpeed(opts.speed, opts.rate)
        requestBody ==
            [text |-> cleanText,
             model_id |-> Val(modelId),
             voice_settings |->
                [stability |-> validateStability(Nullish(opts.stability, cfg.stability), modelId),
                 similarity_boost |-> validateUnit(Nullish(opts.similarity, cfg.similarityBoost)),
                 style |-> validateUnit(Nullish(opts.style, cfg.style)),
                 use_speaker_boost |-> Nullish(opts.speakerBoost, cfg.speakerBoost)],
             seed |-> validateSeed(opts.seed),
             language_code |-> opts.language]
    IN  [error |-> IF voiceId = undefined \/ voiceId = Some("")
                   THEN "Voice ID is required" ELSE "",
         directive |-> directive,
         stripped |-> stripped,
         unknownKeys |-> parsed.unknownKeys,
         opts |-> opts,
         voiceId |-> voiceId,
         path |-> "/text-to-speech/{voiceId}/stream",
         output_format |-> Val(outputFormat),
         optimize_streaming_latency |->
            IF opts.latencyTier # undefined
            THEN validateLatencyTier(opts.latencyTier) ELSE Some(0),
         body |-> requestBody,
         speed |-> speed]

\* private readonly VOICE_CACHE_TTL = 3600000, in milliseconds
VOICE_CACHE_TTL == 3600000

\* the test of fetchVoices for returning the cached list, now being Date.now()
cacheFresh_expired(cached, cachedAt, t) ==
    Len(cached) > 0 /\ t - cachedAt > VOICE_CACHE_TTL

cacheFresh(cached, cachedAt, t) ==
    Len(cached) > 0 /\ t - cachedAt < VOICE_CACHE_TTL

\* one element of data.voices.map(...)
mapVoice(v) ==
    [id |-> v.voice_id,
     name |-> v.name,
     language |-> IF v.labels = undefined THEN undefined ELSE Val(v.labels).language,
     gender |-> IF v.labels = undefined THEN undefined ELSE Val(v.labels).gender,
     description |-> v.description]

mapVoices(data) == [i \in 1..Len(data) |-> mapVoice(data[i])]

\* Buffer.isBuffer(chunk) ? chunk : Buffer.from(chunk)
toBuffer_empty(chunk) == [isBuffer |-> TRUE, bytes |-> <<>>]

toBuffer(chunk) ==
    IF chunk.isBuffer THEN chunk ELSE [isBuffer |-> TRUE, bytes |-> chunk.bytes]

\* the bytes of a sequence of chunks, one after the other
RECURSIVE Bytes(_)
Bytes(chunks) ==
    IF chunks = <<>> THEN <<>> ELSE chunks[1].bytes \o Bytes(Tail(chunks))

\* Buffer.from(await response.arrayBuffer()): the whole body, empty without one
arrayBuffer(r) == IF r.hasBody THEN Bytes(r.body) ELSE <<>>

\* ---------------------------------------------------------------------------
\* Inputs
\* ---------------------------------------------------------------------------

\* the most words of a plain line
MaxWords == 2

\* the most lines of plain text after the first line
MaxRest == 1

Seed(hi, lo, fr) == [hi |-> hi, lo |-> lo, fr |-> fr]

Directives ==
    { NoKeys,
      [NoKeys EXCEPT !.voice = Some("abc")],
      [NoKeys EXCEPT !.voice_id = Some("vid")],
      [NoKeys EXCEPT !.voiceId = Some("vId"), !.voice = Some("abc")],
      [NoKeys EXCEPT !.voice = Some("")],
      [NoKeys EXCEPT !.voice = Some("x"), !.extra = <<"foo">>],
      [NoKeys EXCEPT !.voice = Some("abc"), !.speed = Some((6 * Scale) \div 5),
                     !.once = Some(TRUE)],
      [NoKeys EXCEPT !.model = Some("eleven_v3")],
      [NoKeys EXCEPT !.model_id = Some("eleven_multilingual_v2")],
      [NoKeys EXCEPT !.modelId = Some("eleven_turbo_v2"), !.model = Some("eleven_v3")],
      [NoKeys EXCEPT !.model = Some("")],
      [NoKeys EXCEPT !.speed = Some(2 * Scale)],
      [NoKeys EXCEPT !.speed = Some(0)],
      [NoKeys EXCEPT !.speed = Some(Scale \div 2)],
      [NoKeys EXCEPT !.speed = Some(5 * Scale), !.rate = Some(75)],
      [NoKeys EXCEPT !.rate = Some(300)],
      [NoKeys EXCEPT !.stability = Some(0)],
      [NoKeys EXCEPT !.stability = Some((3 * Scale) \div 4), !.model = Some("eleven_v3")],
      [NoKeys EXCEPT !.stability = Some((3 * Scale) \div 2)],
      [NoKeys EXCEPT !.stability = Some(-(Scale \div 5))],
      [NoKeys EXCEPT !.similarity = Some(0)],
      [NoKeys EXCEPT !.similarity = Some((13 * Scale) \div 10)],
      [NoKeys EXCEPT !.similarity = Some(Scale \div 2)],
      [NoKeys EXCEPT !.style = Some(0)],
      [NoKeys EXCEPT !.style = Some(-(Scale \div 10))],
      [NoKeys EXCEPT !.style = Some((3 * Scale) \div 10)],
      [NoKeys EXCEPT !.speakerBoost = Some(FALSE)],
      [NoKeys EXCEPT !.seed = Some(Seed(0, 12345, 0))],
      [NoKeys EXCEPT !.seed = Some(Seed(0, 3, (9 * Scale) \div 10))],
      [NoKeys EXCEPT !.seed = Some(Seed(-1, Limb - 5, 0))],
      [NoKeys EXCEPT !.seed = Some(Seed(76293, 61952, 0))],
      [NoKeys EXCEPT !.seed = Some(Seed(0, 0, 0))],
      [NoKeys EXCEPT !.lang = Some("en")],
      [NoKeys EXCEPT !.language = Some("de")],
      [NoKeys EXCEPT !.lang = Some(""), !.language = Some("fr")],
      [NoKeys EXCEPT !.output_format = Some(pcm_24000)],
      [NoKeys EXCEPT !.outputFormat = Some(mp3_44100_128), !.output_format = Some(ulaw_8000)],
      [NoKeys EXCEPT !.output_format = Some(unknown)],
      [NoKeys EXCEPT !.output_format = Some(<<>>)],
      [NoKeys EXCEPT !.latency_tier = Some(0)],
      [NoKeys EXCEPT !.latency_tier = Some(7 * Scale)],
      [NoKeys EXCEPT !.latency_tier = Some(-Scale)],
      [NoKeys EXCEPT !.latency_tier = Some((5 * Scale) \div 2)] }

FirstLines ==
    { ObjLine(d, FALSE, FALSE) : d \in Directives }
    \cup { ObjLine([NoKeys EXCEPT !.voice = Some("abc")], TRUE, TRUE) }
    \cup { Plain(n, FALSE, FALSE) : n \in 1..MaxWords }
    \cup { Plain(1, TRUE, TRUE), EmptyLine, BadBraceLine, ArrayLine, OpenBraceLine }

Rests ==
    { <<>>, <<EmptyLine>>,
      <<ObjLine([NoKeys EXCEPT !.voice = Some("late")], FALSE, FALSE)>> }
    \cup { [i \in 1..n |-> Plain(2, FALSE, FALSE)] : n \in 1..MaxRest }

Texts == { <<f>> \o r : f \in FirstLines, r \in Rests }

NoOptions ==
    [voice |-> undefined, speed |-> undefined, format |-> undefined,
     sampleRate |-> undefined, referenceAudio |-> undefined]

\* the options argument: undefined, or a TTSOptions object
OptionsArgs ==
    { undefined,
      Some(NoOptions),
      Some([NoOptions EXCEPT !.voice = Some("optv")]),
      Some([NoOptions EXCEPT !.voice = Some(""), !.format = Some("wav")]),
      Some([NoOptions EXCEPT !.speed = Some(Scale)]),
      Some([NoOptions EXCEPT !.speed = Some(3 * Scale), !.format = Some("mp3")]),
      Some([NoOptions EXCEPT !.format = Some("opus"), !.sampleRate = Some(16000)]) }

NoConfig ==
    [apiKey |-> undefined, defaultVoiceId |-> undefined,
     defaultModelId |-> undefined, stability |-> undefined,
     similarityBoost |-> undefined, style |-> undefined,
     speakerBoost |-> undefined]

\* the Partial<ElevenLabsConfig> handed to the constructor
ConfigArgs ==
    { NoConfig,
      [NoConfig EXCEPT !.apiKey = Some("k")],
      [NoConfig EXCEPT !.apiKey = Some("k"), !.defaultVoiceId = Some("v1")],
      [NoConfig EXCEPT !.apiKey = Some(""), !.defaultVoiceId = Some("v1"),
                       !.defaultModelId = Some("eleven_v3"),
                       !.stability = Some((3 * Scale) \div 10)],
      [NoConfig EXCEPT !.apiKey = Some("k"), !.defaultVoiceId = Some("v1"),
                       !.stability = Some(-(Scale \div 2)),
                       !.similarityBoost = Some(2 * Scale),
                       !.style = Some((7 * Scale) \div 5),
                       !.speakerBoost = Some(FALSE)] }

NoEnv ==
    [ELEVENLABS_API_KEY |-> undefined, ELEVENLABS_VOICE_ID |-> undefined,
     ELEVENLABS_MODEL_ID |-> undefined]

\* process.env
Envs ==
    { NoEnv,
      [NoEnv EXCEPT !.ELEVENLABS_API_KEY = Some("ek")],
      [NoEnv EXCEPT !.ELEVENLABS_API_KEY = Some("ek"),
                    !.ELEVENLABS_VOICE_ID = Some("ev"),
                    !.ELEVENLABS_MODEL_ID = Some("eleven_v3")] }

\* what a fetch gives: it throws (rejected), or it gives a response with
\* ok, statusText, the text of an error body, and a body of chunks (audio) or
\* a list of voices (GET /voices)
OkEmpty ==
    [rejected |-> FALSE, ok |-> TRUE, statusText |-> "OK", text |-> "",
     hasBody |-> TRUE, body |-> <<>>, voices |-> <<>>]

\* response.body is null
OkNoBody == [OkEmpty EXCEPT !.hasBody = FALSE]

Unauthorized ==
    [OkEmpty EXCEPT !.ok = FALSE, !.statusText = "Unauthorized",
                    !.text = "invalid api key"]

TooManyRequests ==
    [OkEmpty EXCEPT !.ok = FALSE, !.statusText = "Too Many Requests",
                    !.text = "quota exceeded"]

Rejected == [OkEmpty EXCEPT !.rejected = TRUE, !.ok = FALSE, !.statusText = ""]

\* a chunk of a response body: a Buffer or another byte array
BufferChunk == [isBuffer |-> TRUE, bytes |-> <<1, 2>>]

ArrayChunk == [isBuffer |-> FALSE, bytes |-> <<3>>]

\* the most chunks of a response body
MaxChunks == 2

Bodies == UNION { [1..n -> {BufferChunk, ArrayChunk}] : n \in 0..MaxChunks }

AudioResponses ==
    { [OkEmpty EXCEPT !.body = b] : b \in Bodies }
    \cup { OkNoBody, Unauthorized, TooManyRequests, Rejected }

\* language tags
en_US == <<"e", "n", "-", "U", "S">>

en_GB == <<"e", "n", "-", "G", "B">>

\* voices of the remote account (ElevenLabsVoice)
Rachel ==
    [voice_id |-> "21m00Tcm4TlvDq8ikWAM", name |-> "Rachel",
     labels |-> Some([language |-> Some(en_US), gender |-> Some("female")]),
     description |-> Some("calm")]

Clyde ==
    [voice_id |-> "2EiwWnXFnvU5JabPnv8n", name |-> "Clyde",
     labels |-> Some([language |-> Some(en_GB), gender |-> Some("male")]),
     description |-> undefined]

Bella ==
    [voice_id |-> "EXAVITQu4vr4xnSDxMaL", name |-> "Bella",
     labels |-> undefined, description |-> undefined]

\* the most voices of the remote account
MaxVoices == 2

RemoteVoiceLists ==
    { [i \in 1..n |-> IF i % 2 = 1 THEN Rachel ELSE Bella] : n \in 0..MaxVoices }
    \cup { <<Bella>> }

VoicesResponses ==
    { [OkEmpty EXCEPT !.voices = l] : l \in RemoteVoiceLists }
    \cup { Unauthorized, Rejected }

HealthResponses == { OkEmpty, Unauthorized, Rejected }

\* Date.now() when the process starts: any reading that is at least
\* VOICE_CACHE_TTL after the 0 of voicesCachedAt, as every real reading is
Epoch == VOICE_CACHE_TTL

\* the most hours the clock is followed
MaxHours == 2

\* the clock readings looked at: each full hour, and the millisecond before
Instants ==
    { Epoch + k * VOICE_CACHE_TTL - j : k \in 1..MaxHours, j \in {0, 1} }

\* the most fetchVoices calls waiting at once
MaxInFlight == 2

\* options that carry reference audio for a cloned voice, next to the
\* TTSOptions fields
RefAudioOptions ==
    { Some([NoOptions EXCEPT !.referenceAudio = Some("ref-audio")]),
      Some([NoOptions EXCEPT !.referenceAudio = Some("ref-audio"),
                             !.voice = Some("optv")]) }

\* a few texts, configurations and environments for the runs that vary the
\* remote side
FewTexts ==
    { <<Plain(1, FALSE, FALSE)>>,
      <<ObjLine([NoKeys EXCEPT !.voice = Some("abc")], FALSE, FALSE),
        Plain(2, FALSE, FALSE)>> }

KeyConfig == [NoConfig EXCEPT !.apiKey = Some("k"), !.defaultVoiceId = Some("v1")]

CredentialConfigs ==
    { NoConfig, KeyConfig,
      [NoConfig EXCEPT !.apiKey = Some(""), !.defaultVoiceId = Some("v1")] }

KeyEnv == [NoEnv EXCEPT !.ELEVENLABS_API_KEY = Some("ek")]

CredentialEnvs ==
    { NoEnv, KeyEnv, [NoEnv EXCEPT !.ELEVENLABS_API_KEY = Some("")] }

\* ---------------------------------------------------------------------------
\* State
\* ---------------------------------------------------------------------------

VARIABLES
    env,              \* process.env
    config,           \* this.config of the provider, undefined before construction
    constructedEnv,   \* process.env as it was when the constructor ran
    cachedVoices,     \* this.cachedVoices
    voicesCachedAt,   \* this.voicesCachedAt
    now,              \* what Date.now() returns
    fetches,          \* the fetchVoices calls waiting for the remote answer
    voicesResult,     \* the outcome of the fetchVoices call that finished last
    call,             \* the call in progress or just finished, and its locals
    probe,            \* a helper function under test: its arguments and result
    _provider,        \* the plugin's _provider: null, or the provider it holds
    ctx               \* the host context given to the last init, and the
                      \* calls it has received

vars == <<env, config, constructedEnv, cachedVoices, voicesCachedAt, now, fetches,
          voicesResult, call, probe, _provider, ctx>>

\* what belongs to the plugin object and its host
pluginState == <<_provider, ctx>>

provider == <<config, cachedVoices, voicesCachedAt>>

\* what a fetchVoices call reads and leaves behind
directory == <<cachedVoices, voicesCachedAt, now, fetches, voicesResult>>

Idle == [pc |-> "idle"]

\* let _provider: ElevenLabsTTSProvider | null = null
null == {"null"}

\* no init has run: no host context has been given to the plugin
NoCtx == [offers |-> FALSE, throws |-> FALSE, calls |-> <<>>]

NoProbe == [fn |-> "none"]

\* no fetchVoices call has finished
NoResult ==
    [fetched |-> FALSE, response |-> undefined, ok |-> FALSE, error |-> "none",
     voices |-> <<>>]

\* get voices()
voices == cachedVoices

Init ==
    /\ env \in Envs
    /\ config = undefined
    /\ constructedEnv = NoEnv
    /\ cachedVoices = <<>>
    /\ voicesCachedAt = 0
    /\ now = Epoch
    /\ fetches = <<>>
    /\ voicesResult = NoResult
    /\ call = Idle
    /\ _provider = null
    /\ ctx = NoCtx
    /\ probe = NoProbe

\* the environment changes between calls
SetEnv(e) ==
    /\ call.pc = "idle"
    /\ e # env
    /\ env' = e
    /\ UNCHANGED <<config, constructedEnv, directory, call, probe, pluginState>>

\* new ElevenLabsTTSProvider(c)
Construct(c) ==
    /\ call.pc = "idle"
    /\ LET made == constructor(c, env)
       IN  IF made = undefined
           THEN /\ call' = [pc |-> "failed", op |-> "constructor", arg |-> c,
                            error |-> "ELEVENLABS_API_KEY is required"]
                /\ UNCHANGED <<config, constructedEnv, cachedVoices, voicesCachedAt,
                               fetches, voicesResult>>
           ELSE /\ config' = made
                /\ constructedEnv' = env
                /\ cachedVoices' = <<>>
                /\ voicesCachedAt' = 0
                /\ fetches' = <<>>
                /\ voicesResult' = NoResult
                /\ call' = [pc |-> "done", op |-> "constructor", arg |-> c]
    /\ UNCHANGED <<env, now, probe, pluginState>>

\* provider.validateConfig()
ValidateConfig ==
    /\ call.pc = "idle"
    /\ config # undefined
    /\ call' = IF Val(config).apiKey = ""
               THEN [pc |-> "failed", op |-> "validateConfig",
                     error |-> "ELEVENLABS_API_KEY is required"]
               ELSE [pc |-> "done", op |-> "validateConfig"]
    /\ UNCHANGED <<env, config, constructedEnv, directory, probe, pluginState>>

\* provider.healthCheck(): the answer of GET /voices, false when the fetch throws
HealthCheck(r) ==
    /\ call.pc = "idle"
    /\ config # undefined
    /\ call' = [pc |-> "done", op |-> "healthCheck",
                result |-> IF r.rejected THEN FALSE ELSE r.ok]
    /\ UNCHANGED <<env, config, constructedEnv, directory, probe, pluginState>>

\* Synthesize keeping the voice of the call as the default voice
Synthesize_persist(text, options) ==
    /\ call.pc = "idle"
    /\ config # undefined
    /\ LET l == synthesize(Val(config), text, options)
       IN  /\ call' = [pc |-> IF l.error # "" THEN "failed" ELSE "awaiting",
                       op |-> "synthesize", text |-> text, options |-> options,
                       locals |-> l, error |-> l.error,
                       sent |-> IF l.error # "" THEN 0 ELSE 1]
           /\ config' = Some([Val(config) EXCEPT !.defaultVoiceId = l.voiceId])
    /\ UNCHANGED <<env, constructedEnv, directory, probe, pluginState>>

\* provider.synthesize(text, options) runs up to its fetch
Synthesize(text, options) ==
    /\ call.pc = "idle"
    /\ config # undefined
    /\ LET l == synthesize(Val(config), text, options)
       IN  call' = [pc |-> IF l.error # "" THEN "failed" ELSE "awaiting",
                    op |-> "synthesize", text |-> text, options |-> options,
                    locals |-> l, error |-> l.error,
                    sent |-> IF l.error # "" THEN 0 ELSE 1]
    /\ UNCHANGED <<env, config, constructedEnv, directory, probe, pluginState>>

\* SynthesizeResponse sending the request again after a response that is not ok
SynthesizeResponse_retry(r) ==
    /\ call.pc = "awaiting"
    /\ call.op = "synthesize"
    /\ call' = IF r.rejected
               THEN [call EXCEPT !.pc = "failed", !.error = "fetch failed"]
                        @@ [response |-> r]
               ELSE IF ~r.ok
               THEN [call EXCEPT !.sent = 2]
               ELSE [call EXCEPT !.pc = "done"]
                        @@ [response |-> r, audio |-> arrayBuffer(r)]
    /\ UNCHANGED <<env, config, constructedEnv, directory, probe, pluginState>>

\* the remote endpoint answers a synthesize request, or the fetch throws
SynthesizeResponse(r) ==
    /\ call.pc = "awaiting"
    /\ call.op = "synthesize"
    /\ call' = IF r.rejected
               THEN [call EXCEPT !.pc = "failed", !.error = "fetch failed"]
                        @@ [response |-> r]
               ELSE IF ~r.ok
               THEN [call EXCEPT !.pc = "failed", !.error = "ElevenLabs TTS failed"]
                        @@ [response |-> r, detail |-> <<r.statusText, r.text>>]
               ELSE [call EXCEPT !.pc = "done"]
                        @@ [response |-> r, audio |-> arrayBuffer(r)]
    /\ UNCHANGED <<env, config, constructedEnv, directory, probe, pluginState>>

\* StreamSynthesize sending the text as it was given, directive line included
StreamSynthesize_rawText(text, options) ==
    /\ call.pc = "idle"
    /\ config # undefined
    /\ LET l == [streamSynthesize(Val(config), text, options) EXCEPT !.body.text = text]
       IN  call' = [pc |-> IF l.error # "" THEN "failed" ELSE "awaiting",
                    op |-> "streamSynthesize", text |-> text, options |-> options,
                    locals |-> l, error |-> l.error,
                    sent |-> IF l.error # "" THEN 0 ELSE 1]
    /\ UNCHANGED <<env, config, constructedEnv, directory, probe, pluginState>>

\* provider.streamSynthesize(text, options) runs up to its fetch
StreamSynthesize(text, options) ==
    /\ call.pc = "idle"
    /\ config # undefined
    /\ LET l == streamSynthesize(Val(config), text, options)
       IN  call' = [pc |-> IF l.error # "" THEN "failed" ELSE "awaiting",
                    op |-> "streamSynthesize", text |-> text, options |-> options,
                    locals |-> l, error |-> l.error,
                    sent |-> IF l.error # "" THEN 0 ELSE 1]
    /\ UNCHANGED <<env, config, constructedEnv, directory, probe, pluginState>>

\* the remote endpoint answers a streamSynthesize request, or the fetch
\* throws; with a body the generator takes its first chunk and yields it
StreamResponse(r) ==
    /\ call.pc = "awaiting"
    /\ call.op = "streamSynthesize"
    /\ call' = IF r.rejected
               THEN [call EXCEPT !.pc = "failed", !.error = "fetch failed"]
                        @@ [response |-> r]
               ELSE IF ~r.ok
               THEN [call EXCEPT !.pc = "failed",
                                 !.error = "ElevenLabs TTS streaming failed"]
                        @@ [response |-> r, detail |-> <<r.statusText, r.text>>]
               ELSE IF ~r.hasBody
               THEN [call EXCEPT !.pc = "failed", !.error = "Response body is null"]
                        @@ [response |-> r]
               ELSE IF r.body = <<>>
               THEN [call EXCEPT !.pc = "done"]
                        @@ [response |-> r, read |-> 0, yielded |-> <<>>,
                            stopped |-> FALSE]
               ELSE [call EXCEPT !.pc = "yielded"]
                        @@ [response |-> r, read |-> 1,
                            yielded |-> <<toBuffer(r.body[1])>>, stopped |-> FALSE]
    /\ UNCHANGED <<env, config, constructedEnv, directory, probe, pluginState>>

\* the consumer asks for the next chunk: the generator takes one more chunk
\* of the body and yields it, or ends with the body
StreamNext ==
    /\ call.pc = "yielded"
    /\ call' = IF call.read < Len(call.response.body)
               THEN [call EXCEPT !.read = @ + 1,
                                 !.yielded = Append(@, toBuffer(call.response.body[call.read + 1]))]
               ELSE [call EXCEPT !.pc = "done"]
    /\ UNCHANGED <<env, config, constructedEnv, directory, probe, pluginState>>

\* the consumer stops reading: the generator is closed at its yield
StreamReturn ==
    /\ call.pc = "yielded"
    /\ call' = [call EXCEPT !.pc = "done", !.stopped = TRUE]
    /\ UNCHANGED <<env, config, constructedEnv, directory, probe, pluginState>>

\* the caller takes the outcome of the finished call
Return ==
    /\ call.pc \in {"done", "failed"}
    /\ call' = Idle
    /\ UNCHANGED <<env, config, constructedEnv, directory, probe, pluginState>>

\* time passes
Tick(t) ==
    /\ t > now
    /\ now' = t
    /\ UNCHANGED <<env, config, constructedEnv, cachedVoices, voicesCachedAt, fetches,
                   voicesResult, call, probe, pluginState>>

\* provider.fetchVoices() runs up to its return of the cached list or up to
\* its fetch
FetchVoices ==
    /\ config # undefined
    /\ Len(fetches) < MaxInFlight
    /\ IF cacheFresh(cachedVoices, voicesCachedAt, now)
       THEN /\ voicesResult' = [fetched |-> FALSE, response |-> undefined, ok |-> TRUE,
                                error |-> "", voices |-> cachedVoices]
            /\ UNCHANGED fetches
       ELSE /\ fetches' = Append(fetches, [now |-> now])
            /\ UNCHANGED voicesResult
    /\ UNCHANGED <<env, config, constructedEnv, cachedVoices, voicesCachedAt, now,
                   call, probe, pluginState>>

\* FetchVoicesResponse adding the fetched voices to the cached ones
FetchVoicesResponse_merge(i, r) ==
    /\ i \in 1..Len(fetches)
    /\ fetches' = [j \in 1..(Len(fetches) - 1) |->
                        IF j < i THEN fetches[j] ELSE fetches[j + 1]]
    /\ IF r.rejected \/ ~r.ok
       THEN /\ voicesResult' = [fetched |-> TRUE, response |-> Some(r), ok |-> FALSE,
                                error |-> IF r.rejected THEN "fetch failed"
                                          ELSE "Failed to fetch voices",
                                voices |-> <<>>]
            /\ UNCHANGED <<cachedVoices, voicesCachedAt>>
       ELSE /\ cachedVoices' = cachedVoices \o mapVoices(r.voices)
            /\ voicesCachedAt' = fetches[i].now
            /\ voicesResult' = [fetched |-> TRUE, response |-> Some(r), ok |-> TRUE,
                                error |-> "", voices |-> cachedVoices']
    /\ UNCHANGED <<env, config, constructedEnv, now, call, probe, pluginState>>

\* FetchVoicesResponse dropping the cached voices when the fetch fails
FetchVoicesResponse_clear(i, r) ==
    /\ i \in 1..Len(fetches)
    /\ fetches' = [j \in 1..(Len(fetches) - 1) |->
                        IF j < i THEN fetches[j] ELSE fetches[j + 1]]
    /\ IF r.rejected \/ ~r.ok
       THEN /\ voicesResult' = [fetched |-> TRUE, response |-> Some(r), ok |-> FALSE,
                                error |-> IF r.rejected THEN "fetch failed"
                                          ELSE "Failed to fetch voices",
                                voices |-> <<>>]
            /\ cachedVoices' = <<>>
            /\ voicesCachedAt' = 0
       ELSE /\ cachedVoices' = mapVoices(r.voices)
            /\ voicesCachedAt' = fetches[i].now
            /\ voicesResult' = [fetched |-> TRUE, response |-> Some(r), ok |-> TRUE,
                                error |-> "", voices |-> cachedVoices']
    /\ UNCHANGED <<env, config, constructedEnv, now, call, probe, pluginState>>

\* the remote endpoint answers the i-th waiting fetchVoices call, or its
\* fetch throws
FetchVoicesResponse(i, r) ==
    /\ i \in 1..Len(fetches)
    /\ fetches' = [j \in 1..(Len(fetches) - 1) |->
                        IF j < i THEN fetches[j] ELSE fetches[j + 1]]
    /\ IF r.rejected \/ ~r.ok
       THEN /\ voicesResult' = [fetched |-> TRUE, response |-> Some(r), ok |-> FALSE,
                                error |-> IF r.rejected THEN "fetch failed"
                                          ELSE "Failed to fetch voices",
                                voices |-> <<>>]
            /\ UNCHANGED <<cachedVoices, voicesCachedAt>>
       ELSE /\ cachedVoices' = mapVoices(r.voices)
            /\ voicesCachedAt' = fetches[i].now
            /\ voicesResult' = [fetched |-> TRUE, response |-> Some(r), ok |-> TRUE,
                                error |-> "", voices |-> cachedVoices']
    /\ UNCHANGED <<env, config, constructedEnv, now, call, probe, pluginState>>

Next ==
    \/ \E e \in Envs : SetEnv(e)
    \/ \E c \in ConfigArgs : Construct(c)
    \/ \E t \in Texts, o \in OptionsArgs : Synthesize(t, o)
    \/ \E r \in {OkEmpty, Unauthorized} : SynthesizeResponse(r)
    \/ \E t \in Texts, o \in OptionsArgs : StreamSynthesize(t, o)
    \/ \E r \in {OkEmpty, OkNoBody, Unauthorized} : StreamResponse(r)
    \/ Return

Spec == Init /\ [][Next]_vars

\* ---------------------------------------------------------------------------
\* The provider against a remote side that answers in every way
\* ---------------------------------------------------------------------------

InitRemote ==
    /\ env \in CredentialEnvs
    /\ config = undefined
    /\ constructedEnv = NoEnv
    /\ cachedVoices = <<>>
    /\ voicesCachedAt = 0
    /\ now = Epoch
    /\ fetches = <<>>
    /\ voicesResult = NoResult
    /\ call = Idle
    /\ _provider = null
    /\ ctx = NoCtx
    /\ probe = NoProbe

NextRemote ==
    \/ \E e \in CredentialEnvs : SetEnv(e)
    \/ \E c \in CredentialConfigs : Construct(c)
    \/ ValidateConfig
    \/ \E r \in HealthResponses : HealthCheck(r)
    \/ \E t \in FewTexts, o \in {undefined} \cup RefAudioOptions : Synthesize(t, o)
    \/ \E r \in AudioResponses : SynthesizeResponse(r)
    \/ \E t \in FewTexts, o \in {undefined} \cup RefAudioOptions :
            StreamSynthesize(t, o)
    \/ \E r \in AudioResponses : StreamResponse(r)
    \/ StreamNext
    \/ StreamReturn
    \/ Return
    \/ FetchVoices
    \/ \E r \in { [OkEmpty EXCEPT !.voices = <<Rachel>>], Unauthorized } :
            FetchVoicesResponse(1, r)

SpecRemote == InitRemote /\ [][NextRemote]_vars

\* ---------------------------------------------------------------------------
\* The provider with its voice directory, over time
\* ---------------------------------------------------------------------------

InitVoices ==
    /\ env = NoEnv
    /\ config = undefined
    /\ constructedEnv = NoEnv
    /\ cachedVoices = <<>>
    /\ voicesCachedAt = 0
    /\ now = Epoch
    /\ fetches = <<>>
    /\ voicesResult = NoResult
    /\ call = Idle
    /\ _provider = null
    /\ ctx = NoCtx
    /\ probe = NoProbe

NextVoices ==
    \/ Construct(KeyConfig)
    \/ Return
    \/ \E t \in Instants : Tick(t)
    \/ FetchVoices
    \/ \E i \in 1..MaxInFlight, r \in VoicesResponses : FetchVoicesResponse(i, r)

SpecVoices == InitVoices /\ [][NextVoices]_vars

\* ---------------------------------------------------------------------------
\* The plugin object, its host and the tool handlers
\* ---------------------------------------------------------------------------

\* readonly metadata of the provider
metadata ==
    [name |-> "elevenlabs", version |-> "1.0.0", type |-> "tts",
     description |-> "ElevenLabs high-quality text-to-speech with streaming support",
     capabilities |-> <<"streaming", "voice-selection", "voice-parameters">>,
     local |-> FALSE]

\* the provider instance a handler closes over: its public metadata and
\* voices, and its private configuration
Instance(cfg, list) == [metadata |-> metadata, config |-> cfg, voices |-> list]

UpperCase ==
    <<"A", "B", "C", "D", "E", "F", "G", "H", "I", "J", "K", "L", "M",
      "N", "O", "P", "Q", "R", "S", "T", "U", "V", "W", "X", "Y", "Z">>

LowerCase ==
    <<"a", "b", "c", "d", "e", "f", "g", "h", "i", "j", "k", "l", "m",
      "n", "o", "p", "q", "r", "s", "t", "u", "v", "w", "x", "y", "z">>

\* String.prototype.toLowerCase
toLowerCase(chars) ==
    [i \in 1..Len(chars) |->
        IF \E k \in 1..Len(UpperCase) : UpperCase[k] = chars[i]
        THEN LowerCase[CHOOSE k \in 1..Len(UpperCase) : UpperCase[k] = chars[i]]
        ELSE chars[i]]

\* String.prototype.startsWith
startsWith(chars, prefix) ==
    /\ Len(prefix) <= Len(chars)
    /\ SubSeq(chars, 1, Len(prefix)) = prefix

\* the output of the getStatus handler, healthy being what healthCheck gave
getStatus_withKey(p, healthy) ==
    [provider |-> p.config.apiKey,
     type |-> p.metadata.type,
     version |-> p.metadata.version,
     description |-> p.metadata.description,
     local |-> p.metadata.local,
     capabilities |-> p.metadata.capabilities,
     healthy |-> healthy,
     voiceCount |-> Len(p.voices)]

getStatus(p, healthy) ==
    [provider |-> p.metadata.name,
     type |-> p.metadata.type,
     version |-> p.metadata.version,
     description |-> p.metadata.description,
     local |-> p.metadata.local,
     capabilities |-> p.metadata.capabilities,
     healthy |-> healthy,
     voiceCount |-> Len(p.voices)]

\* input.language of a handler input: a string, or a value of another type
Str(chars) == Some([typeof |-> "string", chars |-> chars])

NotAString == Some([typeof |-> "number", chars |-> <<>>])

\* listVoices comparing the language tag with the filter as they are written
listVoices_caseSensitive(p, list, input) ==
    LET lang == IF input.language # undefined /\ Val(input.language).typeof = "string"
                THEN Some(Val(input.language).chars) ELSE undefined
        Matches(v) ==
            /\ v.language # undefined
            /\ startsWith(Val(v.language), Val(lang))
        filtered == IF lang # undefined /\ Val(lang) # <<>>
                    THEN SelectSeq(list, Matches) ELSE list
    IN  [provider |-> p.metadata.name,
         count |-> Len(filtered),
         voices |-> [i \in 1..Len(filtered) |->
                        [id |-> filtered[i].id,
                         name |-> filtered[i].name,
                         language |-> Nullish(filtered[i].language, null),
                         gender |-> Nullish(filtered[i].gender, null),
                         description |-> Nullish(filtered[i].description, null)]]]

\* the output of the listVoices handler from the list it works on: the
\* provider's voices, or what fetchVoices returned when they were empty
listVoices(p, list, input) ==
    LET lang == IF input.language # undefined /\ Val(input.language).typeof = "string"
                THEN Some(Val(input.language).chars) ELSE undefined
        Matches(v) ==
            /\ v.language # undefined
            /\ startsWith(toLowerCase(Val(v.language)), toLowerCase(Val(lang)))
        filtered == IF lang # undefined /\ Val(lang) # <<>>
                    THEN SelectSeq(list, Matches) ELSE list
    IN  [provider |-> p.metadata.name,
         count |-> Len(filtered),
         voices |-> [i \in 1..Len(filtered) |->
                        [id |-> filtered[i].id,
                         name |-> filtered[i].name,
                         language |-> Nullish(filtered[i].language, null),
                         gender |-> Nullish(filtered[i].gender, null),
                         description |-> Nullish(filtered[i].description, null)]]]

\* the host contexts given to init: without registerCapabilityProvider, with
\* it, and with one that throws
Contexts ==
    { NoCtx, [NoCtx EXCEPT !.offers = TRUE],
      [NoCtx EXCEPT !.offers = TRUE, !.throws = TRUE] }

\* the inputs of the listVoices handler
fr == <<"f", "r">>

ListInputs ==
    { [language |-> undefined], [language |-> NotAString],
      [language |-> Str(<<>>)], [language |-> Str(<<"e", "n">>)],
      [language |-> Str(<<"E", "N", "-", "u", "s">>)],
      [language |-> Str(en_GB)], [language |-> Str(fr)] }

\* what GET /voices gives while the plugin runs
DirectoryResponses ==
    { [OkEmpty EXCEPT !.voices = <<Rachel, Bella, Clyde>>], OkEmpty,
      Unauthorized, Rejected }

\* PluginInit registering its provider only with a host that takes
\* capability providers
PluginInit_ifOffered(c) ==
    /\ call.pc = "idle"
    /\ LET made == constructor([NoConfig EXCEPT !.apiKey = env.ELEVENLABS_API_KEY], env)
       IN  IF made = undefined
           THEN /\ call' = [pc |-> "failed", op |-> "init",
                            error |-> "ELEVENLABS_API_KEY is required"]
                /\ ctx' = c
                /\ UNCHANGED <<_provider, config, constructedEnv, cachedVoices,
                               voicesCachedAt, fetches, voicesResult>>
           ELSE /\ _provider' = Some("ElevenLabsTTSProvider")
                /\ config' = made
                /\ constructedEnv' = env
                /\ cachedVoices' = <<>>
                /\ voicesCachedAt' = 0
                /\ fetches' = <<[now |-> now]>>
                /\ voicesResult' = NoResult
                /\ ctx' = [c EXCEPT !.calls =
                            IF c.offers
                            THEN <<[fn |-> "registerExtension", name |-> "tts",
                                    id |-> "ElevenLabsTTSProvider"],
                                   [fn |-> "registerCapabilityProvider",
                                    name |-> "tts", id |-> metadata.name]>>
                            ELSE <<>>]
                /\ call' = [pc |-> "done", op |-> "init"]
    /\ UNCHANGED <<env, now, probe>>

\* plugin.init(c): it constructs the provider from the environment, starts
\* the first fetchVoices call without waiting for it, and registers
PluginInit(c) ==
    /\ call.pc = "idle"
    /\ LET made == constructor([NoConfig EXCEPT !.apiKey = env.ELEVENLABS_API_KEY], env)
       IN  IF made = undefined
           THEN /\ call' = [pc |-> "failed", op |-> "init",
                            error |-> "ELEVENLABS_API_KEY is required"]
                /\ ctx' = c
                /\ UNCHANGED <<_provider, config, constructedEnv, cachedVoices,
                               voicesCachedAt, fetches, voicesResult>>
           ELSE /\ _provider' = Some("ElevenLabsTTSProvider")
                /\ config' = made
                /\ constructedEnv' = env
                /\ cachedVoices' = <<>>
                /\ voicesCachedAt' = 0
                /\ fetches' = <<[now |-> now]>>
                /\ voicesResult' = NoResult
                /\ ctx' = [c EXCEPT !.calls =
                            <<[fn |-> "registerExtension", name |-> "tts",
                               id |-> "ElevenLabsTTSProvider"]>>
                            \o IF c.offers
                               THEN <<[fn |-> "registerCapabilityProvider",
                                       name |-> "tts", id |-> metadata.name]>>
                               ELSE <<>>]
                /\ call' = [pc |-> "done", op |-> "init"]
    /\ UNCHANGED <<env, now, probe>>

\* PluginShutdown keeping its provider
PluginShutdown_keep ==
    /\ call.pc = "idle"
    /\ call' = [pc |-> "done", op |-> "shutdown", held |-> _provider # null]
    /\ UNCHANGED <<env, config, constructedEnv, directory, probe, pluginState>>

\* plugin.shutdown()
PluginShutdown ==
    /\ call.pc = "idle"
    /\ IF _provider # null THEN _provider' = null ELSE UNCHANGED _provider
    /\ call' = [pc |-> "done", op |-> "shutdown", held |-> _provider # null]
    /\ UNCHANGED <<env, config, constructedEnv, directory, probe, ctx>>

\* plugin.getWebMCPHandlers(): the names of the handlers it gives
GetWebMCPHandlers ==
    /\ call.pc = "idle"
    /\ call' = [pc |-> "done", op |-> "getWebMCPHandlers",
                result |-> IF _provider = null THEN {}
                           ELSE {"elevenlabs-tts.getStatus", "elevenlabs-tts.listVoices",
                                 "elevenlabs-tts.listModels"}]
    /\ UNCHANGED <<env, config, constructedEnv, directory, probe, pluginState>>

\* the getStatus handler of the provider the plugin holds, r being the
\* answer to the request of its healthCheck
GetStatus(r) ==
    /\ call.pc = "idle"
    /\ _provider # null
    /\ call' = [pc |-> "done", op |-> "getStatus", response |-> r,
                result |-> getStatus(Instance(Val(config), voices),
                                     IF r.rejected THEN FALSE ELSE r.ok)]
    /\ UNCHANGED <<env, config, constructedEnv, directory, probe, pluginState>>

\* the listVoices handler of the provider the plugin holds, r being the
\* answer to the request of fetchVoices when it sends one
ListVoices(input, r) ==
    /\ call.pc = "idle"
    /\ _provider # null
    /\ IF Len(voices) # 0
       THEN /\ call' = [pc |-> "done", op |-> "listVoices", input |-> input,
                        fetched |-> FALSE, list |-> voices,
                        result |-> listVoices(Instance(Val(config), voices),
                                              voices, input)]
            /\ UNCHANGED <<cachedVoices, voicesCachedAt, voicesResult>>
       ELSE IF r.rejected \/ ~r.ok
       THEN /\ call' = [pc |-> "failed", op |-> "listVoices", input |-> input,
                        fetched |-> TRUE,
                        error |-> IF r.rejected THEN "fetch failed"
                                  ELSE "Failed to fetch voices"]
            /\ voicesResult' = [fetched |-> TRUE, response |-> Some(r), ok |-> FALSE,
                                error |-> call'.error, voices |-> <<>>]
            /\ UNCHANGED <<cachedVoices, voicesCachedAt>>
       ELSE /\ cachedVoices' = mapVoices(r.voices)
            /\ voicesCachedAt' = now
            /\ voicesResult' = [fetched |-> TRUE, response |-> Some(r), ok |-> TRUE,
                                error |-> "", voices |-> cachedVoices']
            /\ call' = [pc |-> "done", op |-> "listVoices", input |-> input,
                        fetched |-> TRUE, list |-> cachedVoices',
                        result |-> listVoices(Instance(Val(config), cachedVoices'),
                                              cachedVoices', input)]
    /\ UNCHANGED <<env, config, constructedEnv, now, fetches, probe, pluginState>>

InitPlugin ==
    /\ env \in CredentialEnvs
    /\ config = undefined
    /\ constructedEnv = NoEnv
    /\ cachedVoices = <<>>
    /\ voicesCachedAt = 0
    /\ now = Epoch
    /\ fetches = <<>>
    /\ voicesResult = NoResult
    /\ call = Idle
    /\ probe = NoProbe
    /\ _provider = null
    /\ ctx = NoCtx

NextPlugin ==
    \/ \E e \in CredentialEnvs : SetEnv(e)
    \/ \E c \in Contexts : PluginInit(c)
    \/ PluginShutdown
    \/ GetWebMCPHandlers
    \/ \E r \in HealthResponses : GetStatus(r)
    \/ \E i \in ListInputs, r \in DirectoryResponses : ListVoices(i, r)
    \/ \E r \in DirectoryResponses : FetchVoicesResponse(1, r)
    \/ Return

SpecPlugin == InitPlugin /\ [][NextPlugin]_vars

\* ---------------------------------------------------------------------------
\* The helper functions on their own
\* ---------------------------------------------------------------------------

\* the largest magnitude of a stability argument, in 1/Scale units
MaxReal == 600

\* the largest speed argument, in steps of 0.05
MaxSpeedSteps == 100

\* the largest rate argument, in words per minute
MaxRate == 700

\* the longest generated output-format string
MaxFormatLen == 4

StabilityArgs == {undefined} \cup { Some(x) : x \in (-MaxReal)..MaxReal }

ModelArgs == {undefined, Some(""), Some("eleven_v3"), Some("eleven_turbo_v2_5")}

SpeedArgs ==
    {undefined} \cup { Some(k * (Scale \div 20)) : k \in (-MaxSpeedSteps)..MaxSpeedSteps }

RateArgs ==
    {undefined}
    \cup { Some(r) : r \in { q \in 0..MaxRate : q % 25 = 0 \/ q \in {37, 38, 599, 601} } }

FormatArgs ==
    { pcm_44100, pcm_24000, pcm_16000, mp3_44100_128, ulaw_8000, unknown }
    \cup UNION { [1..n -> {"a", "_", "0", "7"}] : n \in 0..MaxFormatLen }

InitFn ==
    /\ env = NoEnv
    /\ config = undefined
    /\ constructedEnv = NoEnv
    /\ cachedVoices = <<>>
    /\ voicesCachedAt = 0
    /\ now = Epoch
    /\ fetches = <<>>
    /\ voicesResult = NoResult
    /\ call = Idle
    /\ _provider = null
    /\ ctx = NoCtx
    /\ \/ \E v \in StabilityArgs, m \in ModelArgs :
            probe = [fn |-> "validateStability", value |-> v, modelId |-> m,
                     done |-> FALSE]
       \/ \E sp \in SpeedArgs, r \in RateArgs :
            probe = [fn |-> "resolveSpeed", speed |-> sp, rateWPM |-> r,
                     done |-> FALSE]
       \/ \E f \in FormatArgs :
            probe = [fn |-> "parseSampleRate", format |-> f, done |-> FALSE]

ApplyValidateStability ==
    /\ probe.fn = "validateStability"
    /\ ~probe.done
    /\ probe' = [fn |-> probe.fn, value |-> probe.value, modelId |-> probe.modelId,
                 done |-> TRUE,
                 out |-> validateStability(probe.value, probe.modelId)]
    /\ UNCHANGED <<env, config, constructedEnv, directory, call, pluginState>>

ApplyResolveSpeed ==
    /\ probe.fn = "resolveSpeed"
    /\ ~probe.done
    /\ probe' = [fn |-> probe.fn, speed |-> probe.speed, rateWPM |-> probe.rateWPM,
                 done |-> TRUE,
                 out |-> resolveSpeed(probe.speed, probe.rateWPM)]
    /\ UNCHANGED <<env, config, constructedEnv, directory, call, pluginState>>

ApplyParseSampleRate ==
    /\ probe.fn = "parseSampleRate"
    /\ ~probe.done
    /\ probe' = [fn |-> probe.fn, format |-> probe.format, done |-> TRUE,
                 out |-> parseSampleRate(probe.format)]
    /\ UNCHANGED <<env, config, constructedEnv, directory, call, pluginState>>

NextFn ==
    \/ ApplyValidateStability
    \/ ApplyResolveSpeed
    \/ ApplyParseSampleRate

SpecFn == InitFn /\ [][NextFn]_vars

\* ---------------------------------------------------------------------------
\* Properties of the helper functions (checked under SpecFn)
\* ---------------------------------------------------------------------------

StabilityDone == probe.fn = "validateStability" /\ probe.done

V3StabilityDone ==
    StabilityDone /\ probe.modelId = Some("eleven_v3") /\ probe.value # undefined

\* C6, as stated: for eleven_v3 every numeric stability gives one of 0.0, 0.5,
\* 1.0, with 0.3 giving 0.5, 0.24 giving 0.0, 0.75 giving 1.0 and 0.25 giving
\* 0.0.
C6_AsStated ==
    V3StabilityDone =>
        /\ probe.out \in {Some(0), Some(Scale \div 2), Some(Scale)}
        /\ (probe.value = Some((3 * Scale) \div 10) => probe.out = Some(Scale \div 2))
        /\ (probe.value = Some((24 * Scale) \div 100) => probe.out = Some(0))
        /\ (probe.value = Some((3 * Scale) \div 4) => probe.out = Some(Scale))
        /\ (probe.value = Some(Scale \div 4) => probe.out = Some(0))

\* C6, amended: for eleven_v3 every numeric stability gives one of 0.0, 0.5,
\* 1.0, with 0.3 giving 0.5, 0.24 giving 0.0, 0.75 giving 0.5 and 0.25 giving
\* 0.0.
C6_V3StabilityIsDiscrete ==
    V3StabilityDone =>
        /\ probe.out \in {Some(0), Some(Scale \div 2), Some(Scale)}
        /\ (probe.value = Some((3 * Scale) \div 10) => probe.out = Some(Scale \div 2))
        /\ (probe.value = Some((24 * Scale) \div 100) => probe.out = Some(0))
        /\ (probe.value = Some((3 * Scale) \div 4) => probe.out = Some(Scale \div 2))
        /\ (probe.value = Some(Scale \div 4) => probe.out = Some(0))

C6_Witness ==
    /\ V3StabilityDone
    /\ probe.value = Some((3 * Scale) \div 4)
    /\ probe.out = Some(Scale \div 2)

\* C7: for eleven_v3 the stability is a candidate of 0.0, 0.5, 1.0 at least
\* distance from the input, the lowest such candidate when two are equally
\* near (0.25 gives 0.0, 0.75 gives 0.5); for any other model, or none, it is
\* the input clamped to [0, 1]; an absent stability stays absent.
C7_StabilitySnapOrClamp ==
    StabilityDone =>
        IF probe.value = undefined THEN probe.out = undefined
        ELSE LET x == Val(probe.value)
                 candidates == {0, Scale \div 2, Scale}
             IN  /\ probe.out # undefined
                 /\ IF probe.modelId = Some("eleven_v3")
                    THEN /\ Val(probe.out) \in candidates
                         /\ \A c \in candidates :
                               \/ Abs(Val(probe.out) - x) < Abs(c - x)
                               \/ Abs(Val(probe.out) - x) = Abs(c - x)
                                  /\ Val(probe.out) <= c
                    ELSE /\ (x < 0 => Val(probe.out) = 0)
                         /\ (x > Scale => Val(probe.out) = Scale)
                         /\ (x >= 0 /\ x <= Scale => Val(probe.out) = x)

C7_Witness ==
    /\ V3StabilityDone
    /\ probe.value = Some(Scale \div 4)
    /\ probe.out = Some(0)

SpeedDone == probe.fn = "resolveSpeed" /\ probe.done

\* v is x clamped to [0.25, 4.0], x being the rational n/d with d > 0
ClampedSpeed(v, n, d) ==
    /\ 4 * v >= Scale
    /\ v <= 4 * Scale
    /\ (4 * n < Scale * d => 4 * v = Scale)
    /\ (n > 4 * Scale * d => v = 4 * Scale)
    /\ (4 * n >= Scale * d /\ n <= 4 * Scale * d => v * d = n)

SampleRateDone == probe.fn = "parseSampleRate" /\ probe.done

\* C10, as stated: parseSampleRate gives the sample rate embedded in the
\* format string and 44100 when the string has no digit: pcm_24000 gives
\* 24000, mp3_44100_128 gives 44100, ulaw_8000 gives 8000, unknown gives 44100.
C10_AsStated ==
    SampleRateDone =>
        LET f == probe.format
        IN  /\ ((\A i \in 1..Len(f) : ~IsDigit(f[i])) => probe.out = 44100)
            /\ (f = pcm_24000 => probe.out = 24000)
            /\ (f = mp3_44100_128 => probe.out = 44100)
            /\ (f = ulaw_8000 => probe.out = 8000)
            /\ (f = unknown => probe.out = 44100)

\* ---------------------------------------------------------------------------
\* Properties of synthesize and streamSynthesize (checked under Spec)
\* ---------------------------------------------------------------------------

SynthOps == {"synthesize", "streamSynthesize"}

\* a synthesize or streamSynthesize call has run at least up to its fetch
SynthCall == call.pc # "idle" /\ call.op \in SynthOps

\* ... and has sent its request
SentRequest == SynthCall /\ call.sent = 1

\* the first element of s that is not undefined
RECURSIVE FirstDefined(_)
FirstDefined(s) ==
    IF s = <<>> THEN undefined
    ELSE IF s[1] # undefined THEN s[1] ELSE FirstDefined(Tail(s))

\* the first element of s that is a non-empty string
RECURSIVE FirstPresent(_)
FirstPresent(s) ==
    IF s = <<>> THEN undefined
    ELSE IF s[1] # undefined /\ s[1] # Some("") THEN s[1] ELSE FirstPresent(Tail(s))

\* the directive of the call's text, undefined when its first line is none
CallDirective == parseVoiceDirective(call.text).directive

\* C1, as stated: every parameter of a request is the first defined value in
\* the order directive, call options, provider config, field by field; a
\* value defined at a higher level is never replaced by a lower one.
C1_AsStated ==
    SentRequest =>
        LET d == CallDirective
            o == call.options
            cfg == Val(config)
            l == call.locals
            dVoice == FirstDefined(<<Field(d, "voiceId"), Field(d, "voice_id"),
                                     Field(d, "voice")>>)
            dModel == FirstDefined(<<Field(d, "modelId"), Field(d, "model_id"),
                                     Field(d, "model")>>)
            dFormat == FirstDefined(<<Field(d, "outputFormat"),
                                      Field(d, "output_format")>>)
            dLang == FirstDefined(<<Field(d, "lang"), Field(d, "language")>>)
            model == FirstDefined(<<dModel, cfg.defaultModelId>>)
        IN  /\ l.voiceId = FirstDefined(<<dVoice, Field(o, "voice"), cfg.defaultVoiceId>>)
            /\ Some(l.body.model_id) = model
            /\ l.opts.speed = FirstDefined(<<Field(d, "speed"), Field(o, "speed")>>)
            /\ l.body.voice_settings.stability
                  = validateStability(FirstDefined(<<Field(d, "stability"), cfg.stability>>),
                                      model)
            /\ l.body.voice_settings.similarity_boost
                  = validateUnit(FirstDefined(<<Field(d, "similarity"), cfg.similarityBoost>>))
            /\ l.body.voice_settings.style
                  = validateUnit(FirstDefined(<<Field(d, "style"), cfg.style>>))
            /\ l.body.voice_settings.use_speaker_boost
                  = FirstDefined(<<Field(d, "speakerBoost"), cfg.speakerBoost>>)
            /\ l.body.seed = validateSeed(Field(d, "seed"))
            /\ l.body.language_code = dLang
            /\ Some(l.output_format)
                  = FirstDefined(<<dFormat, Some(mapAudioFormat(Field(o, "format")))>>)
            /\ l.optimize_streaming_latency
                  = IF Field(d, "latency_tier") # undefined
                    THEN validateLatencyTier(Field(d, "latency_tier"))
                    ELSE IF call.op = "streamSynthesize" THEN Some(0) ELSE undefined

\* C2, as stated: when the first line is parsed as a directive, the text of
\* the request is exactly the lines after the first line, also when there are
\* none.
C2_AsStated ==
    (SentRequest /\ CallDirective # undefined) =>
        call.locals.body.text = Join(Tail(call.text))

\* the voice id the call should use: the first present among the directive
\* (voiceId, voice_id, voice), the call options and the default voice id
CallVoice ==
    FirstPresent(<<Field(CallDirective, "voiceId"), Field(CallDirective, "voice_id"),
                   Field(CallDirective, "voice"), Field(call.options, "voice"),
                   Val(config).defaultVoiceId>>)

VoiceFailure ==
    SynthCall /\ call.pc = "failed" /\ call.error = "Voice ID is required"

C4_AsStated ==
    /\ (call.pc = "done" /\ call.op = "constructor") =>
          /\ (call.arg.defaultVoiceId = undefined
                => Val(config).defaultVoiceId = constructedEnv.ELEVENLABS_VOICE_ID)
          /\ (call.arg.defaultModelId = undefined
              /\ constructedEnv.ELEVENLABS_MODEL_ID # undefined
                => Some(Val(config).defaultModelId) = constructedEnv.ELEVENLABS_MODEL_ID)
    /\ (SynthCall /\ CallVoice = undefined
        /\ constructedEnv.ELEVENLABS_VOICE_ID # undefined) =>
          /\ ~VoiceFailure
          /\ call.locals.voiceId = constructedEnv.ELEVENLABS_VOICE_ID

InUnit(o) == o = undefined \/ (Val(o) >= 0 /\ Val(o) <= Scale)

\* C5: every request carries stability, similarity_boost and style in [0, 1],
\* an integer seed in [0, 4294967295] and an integer latency tier in 0..4,
\* each when present; a call that fails before its request fails for the
\* missing voice id only.
C5_RequestInRange ==
    /\ SentRequest =>
          LET l == call.locals
          IN  /\ InUnit(l.body.voice_settings.stability)
              /\ InUnit(l.body.voice_settings.similarity_boost)
              /\ InUnit(l.body.voice_settings.style)
              /\ l.body.seed # undefined =>
                    LET sd == Val(l.body.seed)
                    IN  /\ sd.fr = 0
                        /\ sd.hi \in 0..(Limb - 1)
                        /\ sd.lo \in 0..(Limb - 1)
              /\ l.optimize_streaming_latency # undefined =>
                    Val(l.optimize_streaming_latency) \in { k * Scale : k \in 0..4 }
    /\ (SynthCall /\ call.sent = 0) => (VoiceFailure /\ CallVoice = undefined)

C5_Witness ==
    /\ SentRequest
    /\ Field(CallDirective, "similarity") = Some((13 * Scale) \div 10)
    /\ call.locals.body.voice_settings.similarity_boost = Some(Scale)
    /\ Val(config).stability = Some(-(Scale \div 2))
    /\ call.locals.body.voice_settings.stability = Some(0)

\* C9, as stated: durationMs of synthesize is (words of the cleaned text /
\* 2.5) * 1000 divided by the resolved speed: the explicit speed clamped to
\* [0.25, 4.0], else rate/150 clamped to [0.25, 4.0], else 1.0.
C9_AsStated ==
    (call.pc = "done" /\ call.op = "synthesize") =>
        LET d == CallDirective
            explicit == FirstDefined(<<Field(d, "speed"), Field(call.options, "speed")>>)
            resolved == resolveSpeed(explicit, Field(d, "rate"))
            multiplier == IF resolved = undefined THEN Scale ELSE Val(resolved)
        IN  call.locals.durationMs
              = Rat(SplitLength(call.locals.body.text) * 400 * Scale, multiplier)

\* ---------------------------------------------------------------------------
\* Properties of the directive parser as the calls use it (checked under Spec)
\* ---------------------------------------------------------------------------

\* the errors a synthesize or streamSynthesize call can end with
CallErrors ==
    {"", "Voice ID is required", "ElevenLabs TTS failed",
     "ElevenLabs TTS streaming failed", "Response body is null", "fetch failed"}

\* the call's text with the unknown keys of its first line taken away
WithoutUnknownKeys(text) ==
    [text EXCEPT ![1] = [@ EXCEPT !.obj = [@ EXCEPT !.extra = <<>>]]]

\* what the call computes up to its fetch for the given text
CallLocals(text) ==
    IF call.op = "synthesize"
    THEN synthesize(Val(config), text, call.options)
    ELSE streamSynthesize(Val(config), text, call.options)

\* C11: when the trimmed first line of the text is a well-formed JSON object,
\* the parser gives that object as the directive, the lines after the first
\* line (joined by newlines) as the remaining text, and as unknown keys
\* exactly the keys of the object outside the known set; unknown keys never
\* make the call fail, and the call resolves the voice, the model, the
\* voice settings, seed, language, output format and latency tier that it
\* resolves for the same directive without them.
C11_ObjectLineIsDirective ==
    (SynthCall /\ call.text[1].json = "object") =>
        LET l == call.locals
            obj == call.text[1].obj
            keys == ObjectKeys(obj)
            plain == CallLocals(WithoutUnknownKeys(call.text))
        IN  /\ l.directive = Some(obj)
            /\ l.stripped = IF Len(call.text) = 1 THEN EmptyText ELSE Tail(call.text)
            /\ { l.unknownKeys[i] : i \in 1..Len(l.unknownKeys) }
                  = { keys[i] : i \in 1..Len(keys) } \ knownKeys
            /\ call.error \in CallErrors
            /\ l.error = plain.error
            /\ l.opts = plain.opts
            /\ l.voiceId = plain.voiceId
            /\ l.output_format = plain.output_format
            /\ l.optimize_streaming_latency = plain.optimize_streaming_latency
            /\ l.body.model_id = plain.body.model_id
            /\ l.body.voice_settings = plain.body.voice_settings
            /\ l.body.seed = plain.body.seed
            /\ l.body.language_code = plain.body.language_code

\* a call whose directive has an unknown key and lines after it has sent its
\* request
C11_Witness ==
    /\ SentRequest
    /\ call.text[1].json = "object"
    /\ call.locals.unknownKeys = <<"foo">>
    /\ call.locals.voiceId = Some("x")
    /\ Len(call.text) > 1

\* C12: when the trimmed first line of the text is not a well-formed JSON
\* object (empty, plain text, an array, text in braces that does not parse),
\* the parser gives no directive, the text unchanged and no unknown keys, and
\* the call does not fail for it; a JSON object on a later line is never
\* taken as a directive.
C12_OtherLineIsText ==
    (SynthCall /\ call.text[1].json # "object") =>
        LET l == call.locals
        IN  /\ l.directive = undefined
            /\ l.stripped = call.text
            /\ l.unknownKeys = <<>>
            /\ call.error \in CallErrors
            /\ l.body.text = call.text
            /\ l.voiceId = FirstPresent(<<Field(call.options, "voice"),
                                          Val(config).defaultVoiceId>>)

\* a call whose text has braces that do not parse on the first line and a
\* JSON object on the second has sent its request
C12_Witness ==
    /\ SentRequest
    /\ call.text[1] = BadBraceLine
    /\ Len(call.text) = 2
    /\ call.text[2].json = "object"

\* ---------------------------------------------------------------------------
\* Properties of the remote calls (checked under SpecRemote and Spec)
\* ---------------------------------------------------------------------------

\* the remote side has answered the call's request
Answered == SynthCall /\ "response" \in DOMAIN call

\* C13: a synthesize or streamSynthesize call sends at most one request; a
\* response that is not ok makes the call fail with an error that carries
\* the status text and the body of the response, without another request and
\* without audio or chunks; an ok response without a body makes
\* streamSynthesize fail as well.
C13_OneRequestNoRetry ==
    SynthCall =>
        /\ call.sent \in {0, 1}
        /\ call.sent = 0 => (call.pc = "failed" /\ ~Answered)
        /\ Answered => call.pc # "awaiting"
        /\ (Answered /\ ~call.response.rejected /\ ~call.response.ok) =>
              /\ call.pc = "failed"
              /\ call.error = IF call.op = "synthesize" THEN "ElevenLabs TTS failed"
                              ELSE "ElevenLabs TTS streaming failed"
              /\ call.detail = <<call.response.statusText, call.response.text>>
              /\ "audio" \notin DOMAIN call
              /\ "yielded" \notin DOMAIN call
        /\ (Answered /\ call.op = "streamSynthesize" /\ call.response.ok
                /\ ~call.response.hasBody) =>
              /\ call.pc = "failed"
              /\ call.error = "Response body is null"
              /\ "yielded" \notin DOMAIN call

\* a synthesize call has failed on a 429 answer
C13_Witness ==
    /\ Answered
    /\ call.op = "synthesize"
    /\ call.response = TooManyRequests
    /\ call.pc = "failed"
    /\ call.detail = <<"Too Many Requests", "quota exceeded">>
    /\ call.sent = 1

\* the latency tier of a directive value: its floor, held in 0..4
Tier(x) ==
    CHOOSE k \in 0..4 :
        \/ x < 0 /\ k = 0
        \/ x >= 4 * Scale /\ k = 4
        \/ k * Scale <= x /\ x < (k + 1) * Scale

\* C14: the request of streamSynthesize always carries
\* optimize_streaming_latency, the validated tier of the directive or 0
\* without one; the request of synthesize carries it only with a tier.
C14_LatencyParameter ==
    SentRequest =>
        LET t == Field(call.locals.directive, "latency_tier")
            q == call.locals.optimize_streaming_latency
        IN  /\ t # undefined => q = Some(Tier(Val(t)) * Scale)
            /\ (t = undefined /\ call.op = "streamSynthesize") => q = Some(0)
            /\ (t = undefined /\ call.op = "synthesize") => q = undefined

\* a streamSynthesize call without a tier has sent its request with tier 0,
\* its text having a directive
C14_Witness ==
    /\ SentRequest
    /\ call.op = "streamSynthesize"
    /\ call.locals.directive # undefined
    /\ Field(call.locals.directive, "latency_tier") = undefined
    /\ call.locals.optimize_streaming_latency = Some(0)

\* the generator of streamSynthesize has reached its loop over the body
Streaming == SynthCall /\ "yielded" \in DOMAIN call

\* C15: the chunks streamSynthesize hands on are the chunks of the response
\* body: as many as it has taken from the body (none is taken ahead), in the
\* same order, with the same bytes, each a Buffer; the sequence ends when the
\* body ends, and a consumer that stops early ends the call without error.
C15_ChunksAsReceived ==
    Streaming =>
        LET body == call.response.body
        IN  /\ call.read = Len(call.yielded)
            /\ call.read <= Len(body)
            /\ \A i \in 1..Len(call.yielded) :
                  /\ call.yielded[i].bytes = body[i].bytes
                  /\ call.yielded[i].isBuffer
            /\ call.pc \in {"yielded", "done"}
            /\ call.pc = "yielded" => call.read >= 1
            /\ (call.pc = "done" /\ ~call.stopped) => call.read = Len(body)
            /\ call.stopped => call.pc = "done"
            /\ call.error = ""

\* a stream of two chunks, the second not a Buffer, has been handed on to
\* its end
C15_Witness ==
    /\ Streaming
    /\ call.pc = "done"
    /\ ~call.stopped
    /\ call.response.body = <<BufferChunk, ArrayChunk>>
    /\ call.yielded = <<BufferChunk, [isBuffer |-> TRUE, bytes |-> <<3>>]>>

\* a credential is supplied: a non-empty string
Supplied(key) == key # undefined /\ key # Some("")

\* C20: the constructor fails with 'ELEVENLABS_API_KEY is required' exactly
\* when neither the configuration nor the environment supplies a non-empty
\* credential, the configuration taking priority; so every constructed
\* provider holds a non-empty credential and validateConfig never fails.
C20_CredentialRequired ==
    /\ (call.pc # "idle" /\ call.op = "constructor") =>
          LET fromConfig == call.arg.apiKey
              fromEnv == env.ELEVENLABS_API_KEY
          IN  /\ call.pc = "failed" <=> (~Supplied(fromConfig) /\ ~Supplied(fromEnv))
              /\ call.pc = "failed" => call.error = "ELEVENLABS_API_KEY is required"
              /\ call.pc = "done" =>
                    Val(config).apiKey = IF Supplied(fromConfig) THEN Val(fromConfig)
                                         ELSE Val(fromEnv)
    /\ config # undefined => Val(config).apiKey # ""
    /\ (call.pc # "idle" /\ call.op = "validateConfig") => call.pc = "done"

\* a provider has been constructed with the credential of the environment,
\* the configuration holding an empty one
C20_Witness ==
    /\ call.pc = "done"
    /\ call.op = "constructor"
    /\ call.arg.apiKey = Some("")
    /\ Val(config).apiKey = "ek"

\* ---------------------------------------------------------------------------
\* Properties of the voice directory (checked under SpecVoices)
\* ---------------------------------------------------------------------------

\* this step is a fetchVoices call running up to its return of the cached
\* list or up to its fetch
FetchVoicesStarts ==
    /\ UNCHANGED <<config, call, now, cachedVoices, voicesCachedAt>>
    /\ \/ Len(fetches') = Len(fetches) + 1
       \/ fetches' = fetches /\ voicesResult' # voicesResult

\* this step is the end of a fetchVoices call that went to the remote side
FetchVoicesEnds ==
    /\ UNCHANGED <<config, call, now>>
    /\ Len(fetches') = Len(fetches) - 1

\* the fetchVoices call that finished last fetched its list from the remote
\* side, no other call is waiting, and less than the TTL has passed since it
\* was made
FirstCallFetched ==
    /\ voicesResult.ok
    /\ voicesResult.fetched
    /\ fetches = <<>>
    /\ now - voicesCachedAt < VOICE_CACHE_TTL

\* the call of this step returns the cached list without a remote request
ReturnsCached(list) ==
    /\ fetches' = fetches
    /\ voicesResult'.ok
    /\ ~voicesResult'.fetched
    /\ voicesResult'.voices = list

\* C16, as stated: of two fetchVoices calls in a row within the TTL window,
\* the first one fetching, the second performs no remote fetch and returns
\* the list of the first.
C16_AsStated ==
    [][(FirstCallFetched /\ FetchVoicesStarts) => ReturnsCached(voicesResult.voices)]_vars

\* C16, amended: of two fetchVoices calls in a row within the TTL window, the
\* first one fetching a list that is not empty, the second performs no remote
\* fetch and returns the list of the first.
C16_SecondCallCached ==
    [][(FirstCallFetched /\ voicesResult.voices # <<>> /\ FetchVoicesStarts)
            => ReturnsCached(voicesResult.voices)]_vars

\* a second call has returned the cached two voices in the last millisecond
\* of the hour after the fetch
C16_Witness ==
    /\ voicesResult.ok
    /\ ~voicesResult.fetched
    /\ Len(voicesResult.voices) = 2
    /\ voicesResult.voices = cachedVoices
    /\ voicesCachedAt = Epoch
    /\ now = Epoch + VOICE_CACHE_TTL - 1

\* the list is the fetched data, entry by entry
IsListOf(list, data) ==
    /\ Len(list) = Len(data)
    /\ \A i \in 1..Len(data) :
          /\ list[i].id = data[i].voice_id
          /\ list[i].name = data[i].name
          /\ list[i].description = data[i].description
          /\ list[i].language = Field(data[i].labels, "language")
          /\ list[i].gender = Field(data[i].labels, "gender")

\* C17: fetchVoices returns the cached list without a remote request exactly
\* when the cache is not empty and younger than one hour; otherwise it sends
\* a request, and with the answer it replaces the whole cache by the fetched
\* list, stamps it with the time of the call and returns the new list.
C17_CacheOrFetch ==
    /\ [][FetchVoicesStarts =>
            IF Len(cachedVoices) > 0 /\ now - voicesCachedAt < 3600000
            THEN ReturnsCached(cachedVoices)
            ELSE fetches' = Append(fetches, [now |-> now])
                    /\ voicesResult' = voicesResult]_vars
    /\ [][(FetchVoicesEnds /\ Val(voicesResult'.response).ok
                /\ ~Val(voicesResult'.response).rejected) =>
            /\ voicesResult'.ok
            /\ IsListOf(cachedVoices', Val(voicesResult'.response).voices)
            /\ voicesResult'.voices = cachedVoices'
            /\ \E i \in 1..Len(fetches) : voicesCachedAt' = fetches[i].now
            /\ voicesCachedAt' <= now]_vars

\* after the hour has passed, a fetch has replaced the cache by the one
\* voice Bella
C17_Witness ==
    /\ voicesResult.ok
    /\ voicesResult.fetched
    /\ Val(voicesResult.response).voices = <<Bella>>
    /\ Len(cachedVoices) = 1
    /\ cachedVoices[1].name = "Bella"
    /\ voicesCachedAt = Epoch + VOICE_CACHE_TTL

\* C18: when the remote voices fetch fails (the fetch throws or the response
\* is not ok), the fetchVoices call fails and leaves the cached list and its
\* timestamp as they were, so that the voices accessor still gives the list
\* cached before.
C18_FailureKeepsCache ==
    [][(FetchVoicesEnds /\ (Val(voicesResult'.response).rejected
                               \/ ~Val(voicesResult'.response).ok)) =>
            /\ ~voicesResult'.ok
            /\ voicesResult'.error \in {"Failed to fetch voices", "fetch failed"}
            /\ cachedVoices' = cachedVoices
            /\ voicesCachedAt' = voicesCachedAt
            /\ voices' = voices]_vars

\* a refresh of a cache older than the hour has failed and the accessor
\* still gives the voice cached before
C18_Witness ==
    /\ voicesResult.fetched
    /\ ~voicesResult.ok
    /\ Val(voicesResult.response) = Unauthorized
    /\ Len(voices) = 1
    /\ voices[1].name = "Rachel"
    /\ now - voicesCachedAt >= VOICE_CACHE_TTL

\* ---------------------------------------------------------------------------
\* What the calls leave alone (checked under SpecRemote)
\* ---------------------------------------------------------------------------

\* this step belongs to a synthesize, streamSynthesize, healthCheck or
\* validateConfig call
CallStep ==
    /\ call' # call
    /\ call'.pc # "idle"
    /\ call'.op \in SynthOps \cup {"healthCheck", "validateConfig"}

C29_AsStated ==
    [][(call' = call /\ config' = config) => voicesCachedAt' >= voicesCachedAt]_vars

\* ---------------------------------------------------------------------------
\* The result of synthesize against the request it sent (checked under Spec)
\* ---------------------------------------------------------------------------

\* a synthesize call has returned its result
SynthesizeResult == call.pc = "done" /\ call.op = "synthesize"

\* where the sample rate of a provider format starts: after its first "_"
RateStart(format) ==
    IF \E i \in 1..Len(format) : format[i] = "_"
    THEN 1 + CHOOSE i \in 1..Len(format) :
                /\ format[i] = "_"
                /\ \A j \in 1..(i - 1) : format[j] # "_"
    ELSE 0

\* the digits of the sample rate of a provider format (codec_rate or
\* codec_rate_bitrate), empty when the format names none
RECURSIVE DigitsFrom(_, _)
DigitsFrom(format, i) ==
    IF i < 1 \/ i > Len(format) \/ ~IsDigit(format[i]) THEN <<>>
    ELSE <<format[i]>> \o DigitsFrom(format, i + 1)

EmbeddedRate(format) == DigitsFrom(format, RateStart(format))

\* C27, as stated: the sampleRate in the result of synthesize equals the
\* sample rate embedded in the output_format query parameter of the request
\* the call sent, for a format of the caller-format table and for a provider
\* format given by a directive.
C27_AsStated ==
    (SynthesizeResult /\ EmbeddedRate(call.locals.output_format) # <<>>) =>
        call.locals.sampleRate = parseInt(EmbeddedRate(call.locals.output_format))

\* C30, as stated: the format tag in the result of synthesize agrees with
\* the audio requested: the caller-format table maps the tag to the
\* output_format query parameter of the request the call sent, also when a
\* directive sets the output format.
C30_AsStated ==
    SynthesizeResult =>
        mapAudioFormat(Some(call.locals.format)) = call.locals.output_format

\* ---------------------------------------------------------------------------
\* synthesize against streamSynthesize (checked under Spec)
\* ---------------------------------------------------------------------------

\* what the other of the two operations computes for the text, the options
\* and the configuration of the call in progress
OtherLocals ==
    IF call.op = "synthesize"
    THEN streamSynthesize(Val(config), call.text, call.options)
    ELSE synthesize(Val(config), call.text, call.options)

\* the locals of synthesize and of streamSynthesize for the call in progress
BatchLocals == IF call.op = "synthesize" THEN call.locals ELSE OtherLocals

StreamLocals == IF call.op = "streamSynthesize" THEN call.locals ELSE OtherLocals

\* C28: for the same text, call options and provider configuration,
\* synthesize and streamSynthesize resolve the same voice id and output
\* format and send the same JSON body (text, model_id, voice_settings, seed,
\* language_code); the requests differ only in the "/stream" suffix of the
\* path and in the latency tier, which streaming defaults to 0.
C28_SameRequest ==
    SynthCall =>
        /\ BatchLocals.error = StreamLocals.error
        /\ BatchLocals.voiceId = StreamLocals.voiceId
        /\ BatchLocals.output_format = StreamLocals.output_format
        /\ BatchLocals.body = StreamLocals.body
        /\ BatchLocals.body.text = StreamLocals.body.text
        /\ BatchLocals.path = "/text-to-speech/{voiceId}"
        /\ StreamLocals.path = "/text-to-speech/{voiceId}/stream"
        /\ StreamLocals.optimize_streaming_latency =
                IF BatchLocals.optimize_streaming_latency = undefined
                THEN Some(0)
                ELSE BatchLocals.optimize_streaming_latency

\* a streamSynthesize call with options and a directive, whose line is not
\* part of the text sent, has sent its request with the default latency tier
C28_Witness ==
    /\ SentRequest
    /\ call.op = "streamSynthesize"
    /\ call.options # undefined
    /\ call.locals.directive # undefined
    /\ call.locals.body.text # call.text
    /\ call.locals.optimize_streaming_latency = Some(0)
    /\ synthesize(Val(config), call.text, call.options).optimize_streaming_latency
            = undefined

\* ---------------------------------------------------------------------------
\* Reference audio (checked under SpecRemote)
\* ---------------------------------------------------------------------------

\* the call in progress was given reference audio in its options
WithReferenceAudio == SynthCall /\ Field(call.options, "referenceAudio") # undefined

\* C26, as stated: a synthesize or streamSynthesize call with reference audio
\* first asks the remote /voices/add endpoint for a cloned voice and sends
\* its synthesis request with the voice id returned; the clone request is
\* sent once per reference audio and provider, later calls sending their
\* synthesis request with the cached cloned voice id.
C26_AsStated ==
    (WithReferenceAudio /\ SentRequest) =>
        \/ call.locals.path = "/voices/add"
        \/ call.locals.voiceId # CallVoice

\* ---------------------------------------------------------------------------
\* Properties of the plugin lifecycle (checked under SpecPlugin)
\* ---------------------------------------------------------------------------

\* this step is a call of plugin.init
InitStep == call' # call /\ call'.pc # "idle" /\ call'.op = "init"

\* this step is a call of plugin.shutdown
ShutdownStep == call' # call /\ call'.pc # "idle" /\ call'.op = "shutdown"

\* the host context has received this call
Received(fn, name, id) ==
    \E i \in 1..Len(ctx.calls) :
        /\ ctx.calls[i].fn = fn
        /\ ctx.calls[i].name = name
        /\ ctx.calls[i].id = id

\* what init registers with the context of this step when it has constructed
\* its provider: the provider as "tts", and the capability provider
\* "elevenlabs" when the host offers registerCapabilityProvider
Registers ==
    /\ call'.pc = "done"
    /\ _provider' # null
    /\ Received("registerExtension", "tts", "ElevenLabsTTSProvider")'
    /\ ctx'.offers <=> Received("registerCapabilityProvider", "tts", "elevenlabs")'

\* the first fetchVoices call of the provider ends in this step, failing
StartupFetchFails ==
    /\ Len(fetches') = Len(fetches) - 1
    /\ ~voicesResult'.ok

\* C23, as stated: init registers the provider as "tts" (and the capability
\* provider "elevenlabs" when the host offers registerCapabilityProvider)
\* exactly when the provider was constructed; the startup voice fetch, still
\* waiting when init returns, changes nothing of this when it fails; with
\* the credential missing init fails, has registered nothing and leaves the
\* plugin without a provider.
C23_AsStated ==
    /\ [][InitStep =>
            IF Supplied(env.ELEVENLABS_API_KEY)
            THEN Registers /\ fetches' # <<>>
            ELSE /\ call'.pc = "failed"
                 /\ ctx'.calls = <<>>
                 /\ _provider' = null]_vars
    /\ [][StartupFetchFails => UNCHANGED <<_provider, ctx, call>>]_vars

\* C23, amended: the same, except that with the credential missing init
\* fails, has registered nothing and leaves the plugin's provider as it was
\* before the call.
C23_InitRegisters ==
    /\ [][InitStep =>
            IF Supplied(env.ELEVENLABS_API_KEY)
            THEN Registers /\ fetches' # <<>>
            ELSE /\ call'.pc = "failed"
                 /\ ctx'.calls = <<>>
                 /\ _provider' = _provider]_vars
    /\ [][StartupFetchFails => UNCHANGED <<_provider, ctx, call>>]_vars

\* init has returned with the provider and the capability provider
\* registered, and the startup voice fetch has failed since
C23_Witness ==
    /\ call.pc = "done"
    /\ call.op = "init"
    /\ _provider # null
    /\ ctx.offers
    /\ Len(ctx.calls) = 2
    /\ voicesResult.fetched
    /\ ~voicesResult.ok

\* the host context has received a call of fn for this name
Called(fn, name) ==
    \E i \in 1..Len(ctx.calls) : ctx.calls[i].fn = fn /\ ctx.calls[i].name = name

\* C24, as stated: init registers the config schema "voice-elevenlabs-tts"
\* and the extension "tts", and a shutdown after init reverses them: the
\* host has then received unregisterExtension("tts") and
\* unregisterConfigSchema("voice-elevenlabs-tts").
C24_AsStated ==
    /\ [][(InitStep /\ call'.pc = "done") =>
            /\ Called("registerConfigSchema", "voice-elevenlabs-tts")'
            /\ Called("registerExtension", "tts")']_vars
    /\ [][(ShutdownStep /\ _provider # null) =>
            /\ Called("unregisterExtension", "tts")'
            /\ Called("unregisterConfigSchema", "voice-elevenlabs-tts")']_vars

\* C25: shutdown is idempotent: every shutdown completes without error and
\* leaves the plugin without a provider; a shutdown with no provider held,
\* before any init or after an earlier shutdown, changes nothing, so that
\* several shutdowns in a row leave the state of one; and with no provider
\* held getWebMCPHandlers gives no handlers.
C25_ShutdownIdempotent ==
    /\ [][ShutdownStep => (call'.pc = "done" /\ _provider' = null)]_vars
    /\ [][(ShutdownStep /\ _provider = null) =>
            UNCHANGED <<env, config, constructedEnv, cachedVoices, voicesCachedAt,
                        now, fetches, voicesResult, probe, _provider, ctx>>]_vars
    /\ []((call.pc # "idle" /\ call.op = "getWebMCPHandlers" /\ _provider = null)
            => call.result = {})

\* after an init that registered, a shutdown has run with no provider held
C25_Witness ==
    /\ call.pc = "done"
    /\ call.op = "shutdown"
    /\ ~call.held
    /\ _provider = null
    /\ Called("registerExtension", "tts")

\* ---------------------------------------------------------------------------
\* Properties of the tool handlers (checked under SpecPlugin)
\* ---------------------------------------------------------------------------

\* this step is a call of the listVoices handler
ListStep == call' # call /\ call'.pc # "idle" /\ call'.op = "listVoices"

\* a call of the listVoices handler has returned
Listed == call.pc = "done" /\ call.op = "listVoices"

\* the same character, or the same letter in the other case
SameLetter(a, b) ==
    \/ a = b
    \/ \E k \in 1..Len(UpperCase) : {a, b} = {UpperCase[k], LowerCase[k]}

\* the voice has a language tag that starts with the filter, case ignored
TagMatches(v, filter) ==
    /\ v.language # undefined
    /\ Len(filter) <= Len(Val(v.language))
    /\ \A i \in 1..Len(filter) : SameLetter(Val(v.language)[i], filter[i])

\* the voices of the list with a matching tag, in the order of the list
RECURSIVE Keep(_, _)
Keep(list, filter) ==
    IF list = <<>> THEN <<>>
    ELSE (IF TagMatches(list[1], filter) THEN <<list[1]>> ELSE <<>>)
         \o Keep(Tail(list), filter)

\* the handler's output lists these voices, and counts them
Lists(out, list) ==
    /\ out.count = Len(out.voices)
    /\ Len(out.voices) = Len(list)
    /\ \A i \in 1..Len(list) :
          /\ out.voices[i].id = list[i].id
          /\ out.voices[i].name = list[i].name

\* the language filter of the call that returned: the string given as
\* input.language
CallFilter ==
    IF call.input.language # undefined /\ Val(call.input.language).typeof = "string"
    THEN Some(Val(call.input.language).chars) ELSE undefined

\* C22, as stated: the listVoices handler calls fetchVoices exactly when the
\* provider's voice list is empty; without a language filter it returns
\* every voice, with a filter the voices whose language tag starts with the
\* filter, case ignored, in their order, voices without a tag left out; count
\* is the number of voices returned.
C22_AsStated ==
    /\ [][ListStep => (call'.fetched <=> Len(voices) = 0)]_vars
    /\ [](Listed =>
            Lists(call.result,
                  IF CallFilter = undefined THEN call.list
                  ELSE Keep(call.list, Val(CallFilter))))

\* C22, amended: the same, the filter being a string that is not empty; with
\* an empty string as with no filter the handler returns every voice.
C22_FilterByLanguage ==
    /\ [][ListStep => (call'.fetched <=> Len(voices) = 0)]_vars
    /\ [](Listed =>
            Lists(call.result,
                  IF CallFilter = undefined \/ CallFilter = Some(<<>>) THEN call.list
                  ELSE Keep(call.list, Val(CallFilter))))

\* the handler has fetched three voices and returned the one whose tag
\* en-US starts with the filter EN-us
C22_Witness ==
    /\ Listed
    /\ call.fetched
    /\ Len(call.list) = 3
    /\ CallFilter = Some(<<"E", "N", "-", "u", "s">>)
    /\ call.result.count = 1
    /\ call.result.voices[1].name = "Rachel"

\* this step is a call of the getStatus handler
StatusStep == call' # call /\ call'.pc # "idle" /\ call'.op = "getStatus"

\* credentials a provider could hold instead of its own
OtherKeys == {"ek", "k", "sk-other"}

\* the provider of the handlers, holding the credential key instead of its own
WithKey(key, list) == Instance([Val(config) EXCEPT !.apiKey = key], list)

\* C21: the output of the getStatus and listVoices handlers holds neither
\* the credential nor anything derived from it: a provider that differs only
\* in its API key gives, for the same answer to the health probe and the
\* same voice list, the same output.
C21_NoCredentialInOutput ==
    /\ [][StatusStep =>
            /\ \A key \in OtherKeys :
                  call'.result = getStatus(WithKey(key, voices),
                                           ~call'.response.rejected /\ call'.response.ok)
            /\ \A f \in {"provider", "type", "version", "description"} :
                  call'.result[f] # Val(config).apiKey]_vars
    /\ [][(ListStep /\ call'.pc = "done") =>
            /\ \A key \in OtherKeys :
                  call'.result = listVoices(WithKey(key, call'.list), call'.list,
                                            call'.input)
            /\ call'.result.provider # Val(config).apiKey
            /\ \A i \in 1..Len(call'.result.voices) :
                  /\ call'.result.voices[i].id # Val(config).apiKey
                  /\ call'.result.voices[i].name # Val(config).apiKey]_vars

\* the getStatus handler of a provider holding the credential of the
\* environment has reported a healthy remote side and three voices
C21_Witness ==
    /\ call.pc = "done"
    /\ call.op = "getStatus"
    /\ Val(config).apiKey = "ek"
    /\ call.result.healthy
    /\ call.result.voiceCount = 3
    /\ call.result.provider = "elevenlabs"

====
